---- MODULE Spec2Model ----
(***************************************************************************)
(* A model of the peer connection manager (tcp_connection_manager.cpp)     *)
(* and of the mining manager (mining_manager.cpp) of vanillacoin.          *)
(***************************************************************************)
EXTENDS Integers, Sequences, FiniteSets, TLC

(***************************************************************************)
(* Bounds of the model.                                                    *)
(***************************************************************************)
\* The largest number of entries the connection table holds in the model.
MaxConns == 2

\* The largest number of addresses on the ban list at one time.
MaxBanned == 1

\* minimum_tcp_connections is declared in the header of the connection
\* manager; tick() is modelled for this value of it.
minimum_tcp_connections == 2

\* The values of network.tcp.inbound.maximum the model is configured with.
InboundMaxima == {1, 2}

\* The chain grows to at most this many tips.
MaxTip == 2

\* The largest extra-nonce a worker counts to.
MaxExtraNonce == 2

\* The largest number of blocks posted to the strand and not yet processed.
MaxPosted == 1

\* The largest value of the "mine-cpu" argument.
MaxMineCpu == 2

\* The largest number of bootstrap nodes of the configuration.
MaxBootstrap == 2

(***************************************************************************)
(* Program constants.                                                      *)
(***************************************************************************)
\* "Do not retry connections to the same network address more often than
\* every 10 minutes."
retry_interval == 600

(***************************************************************************)
(* The network surface: IP addresses, ports, endpoints, address groups.    *)
(***************************************************************************)
IPs == {1, 2, 3}

\* Address 1 is reachable on two ports, the others on one.
Endpoints == {[ip |-> 1, port |-> 1], [ip |-> 1, port |-> 2],
              [ip |-> 2, port |-> 1], [ip |-> 3, port |-> 1]}

\* network_address_t::group(): addresses 1 and 2 share a group, 3 is alone.
group(ip) == (ip + 1) \div 2

\* The adjusted time of a tick and the last_try of the selected candidate.
Clock == {[now |-> 1600, last_try |-> 0], [now |-> 1600, last_try |-> 1000],
          [now |-> 1599, last_try |-> 1000]}

\* What address_manager::select can return.
Candidates == {[ip |-> e.ip, port |-> e.port, valid |-> v, local |-> l] :
                   e \in Endpoints, v \in BOOLEAN, l \in BOOLEAN}

VARIABLES
    m_tcp_connections,           \* endpoint -> [dir, status] of its handle
    banned,                      \* the ban list of network::instance()
    network_tcp_inbound_maximum, \* configuration value
    running,                     \* start() has run and stop() has not
    stop_pc,                     \* position of a stop() call
    timer_wait,                  \* timer_ has a pending async_wait
    handlers_ok,                 \* expired waits whose tick(success) is queued
    handlers_aborted,            \* cancelled waits, tick(aborted) queued
    tick_pc,                     \* position of the running tick()
    tick_i,                      \* loop counter i of the top-up loop
    tick_added,                  \* endpoints the running tick() has added
    ev                           \* the call that has just run, with its effects

conn_vars == <<m_tcp_connections, banned, network_tcp_inbound_maximum, running,
               stop_pc, timer_wait, handlers_ok, handlers_aborted, tick_pc,
               tick_i, tick_added, ev>>

VARIABLES
    m_state_pow,            \* state_pow_none .. state_pow_stopped
    m_state_pos,            \* state_pos_none .. state_pos_stopped
    globals_state,          \* globals::instance().state()
    initial_block_download, \* utility::is_initial_block_download()
    wallet_locked,          \* wallet_main()->is_locked()
    best,                   \* the best-chain tip (block index and hash)
    hash_previous,          \* the static of increment_extra_nonce
    pc,                     \* position of each worker thread in loop()
    extra_nonce,            \* local extra_nonce of each worker's loop()
    blk,                    \* the candidate of each worker (parent 0: none)
    index_previous,         \* local index_previous of each worker's loop()
    last_build,             \* parent, extra-nonce of a worker's last build
    m_hashes_per_second,    \* 0, or 1 for a positive rate
    m_hps_timer_start,      \* 0, or 1 for a started sample window
    posted,                 \* blocks posted to the strand, not yet processed
    mutex_,                 \* the holder of mutex_ and the place in its call
    stack_next,             \* the second call of a start() or stop() under way
    work,                   \* the last check_work, until its caller moves on
    args,                   \* the "mine-cpu" entry of configuration::args()
    threads_,               \* the number of threads threads_ holds
    loops_performed         \* local loops_performed of the stake throttle

mine_vars == <<m_state_pow, m_state_pos, globals_state, initial_block_download,
               wallet_locked, best, hash_previous, pc, extra_nonce, blk,
               index_previous, last_build, m_hashes_per_second,
               m_hps_timer_start, posted, work, mutex_, stack_next, args,
               threads_, loops_performed>>

VARIABLES
    queries,        \* the vector start() has passed to do_resolve
    resolver_ops,   \* the async_resolve operations of resolver_ in flight
    handler,        \* the completion handler that runs on strand_
    attempts,       \* the hosts async_resolve was called for, in order
    outcomes,       \* the error code each handler was invoked with, in order
    address_book    \* the hosts given to address_manager::add, in order

boot_vars == <<queries, resolver_ops, handler, attempts, outcomes,
               address_book>>

VARIABLES
    config_dat,     \* config.dat: what its inbound maximum reads as
    conf_call       \* the call of the configuration that has just run

conf_vars == <<config_dat, conf_call>>

VARIABLES
    db_config,      \* the database::stack::configuration of the caller
    stack_impl_,    \* the implementation stack_impl_ points to, if any
    db_call,        \* the call of the database stack that has just run
    db_running      \* a start() has returned, with no stop() called since

db_vars == <<db_config, stack_impl_, db_call, db_running>>

vars == <<conn_vars, mine_vars, boot_vars, conf_vars, db_vars>>

(***************************************************************************)
(* The configuration and the database stack as their constructors leave    *)
(* them.                                                                   *)
(***************************************************************************)
\* std::size_t and unsigned long, modelled with SizeBits bits.
SizeBits == 3

size_max == 2 ^ SizeBits - 1

\* network::tcp_inbound_minimum and network::tcp_inbound_maximum, the
\* default of the inbound maximum.
tcp_inbound_minimum == 1

tcp_inbound_maximum == 2

\* What the file gives for "network.tcp.inbound.maximum": no file that
\* read_json can parse, no such key, a text that is no number, or the text
\* of a number, which may be negative or too large for unsigned long.
Texts ==
    {[kind |-> k, value |-> 0] : k \in {"missing", "absent", "junk"}}
        \cup {[kind |-> "number", value |-> n] : n \in -1 .. size_max + 1}

\* No call of the configuration is on record.
NoConfCall == [op |-> "none", arg |-> 0, ret |-> FALSE]

\* The ports a caller sets are 0 .. MaxPort.
MaxPort == 1

\* database::stack::configuration(): m_port(0),
\* m_operation_mode(operation_mode_storage).
DbDefault == [port |-> 0, operation_mode |-> "operation_mode_storage"]

\* stack_impl_(0)
NoImpl == [allocated |-> FALSE, config |-> DbDefault, started |-> FALSE,
           joined |-> FALSE]

\* No call of the database stack is on record.
NoDbCall == [op |-> "none", threw |-> "none"]

\* The configuration without a file, and the database stack after stack().
RestConstructed ==
    /\ config_dat = [kind |-> "missing", value |-> 0]
    /\ conf_call = NoConfCall
    /\ db_config = DbDefault
    /\ stack_impl_ = NoImpl
    /\ db_call = NoDbCall
    /\ db_running = FALSE

(***************************************************************************)
(* The record of a call: its inputs and what it did to its collaborators.  *)
(***************************************************************************)
NoEv == [op |-> "none", ip |-> 0, port |-> 0,
         tstop |-> FALSE,      \* transport->stop() was called
         created |-> FALSE,    \* a tcp_connection was allocated and retained
         started |-> FALSE,    \* connection->start was called
         ret |-> FALSE,        \* the return value of connect
         notified |-> FALSE,   \* address_manager::on_connection_attempt ran
         called |-> FALSE,     \* tick called connect
         valid |-> FALSE,      \* addr.is_valid() of the candidate of tick
         local |-> FALSE,      \* addr.is_local() of the candidate of tick
         age |-> 0,            \* get_adjusted() - addr.last_try
         stopped |-> {},       \* endpoints whose connection->stop() was called
         armed |-> FALSE,      \* timer_.async_wait was issued
         delay |-> 0,          \* the seconds of timer_.expires_from_now
         added |-> {},         \* endpoints retained by the top-up loop
         sent |-> <<>>,        \* endpoints whose connection->send() was called
         skipped |-> {},       \* endpoints whose handle did not lock()
         status |-> ""]        \* the status value published

Size(t) == Cardinality(DOMAIN t)

Endpoint(i, p) == [ip |-> i, port |-> p]

\* std::map::operator[] followed by assignment.
Retain(t, ep, c) == [e \in (DOMAIN t) \cup {ep} |-> IF e = ep THEN c ELSE t[e]]

\* std::map::erase of a set of keys.
Erase(t, S) == [e \in (DOMAIN t) \ S |-> t[e]]

\* A variant: only a handle with a working transport locks.
alive_when_open(c) == c.status = "open"

\* i.second.lock() gives a connection: the handle has not expired.
Alive(c) == c.status # "expired"

\* network::is_address_banned
is_address_banned(ip) == ip \in banned

(***************************************************************************)
(* handle_accept                                                           *)
(***************************************************************************)
\* A variant: only incoming connections count as duplicates.
is_duplicate_incoming(ip) ==
    \E e \in DOMAIN m_tcp_connections :
        e.ip = ip /\ m_tcp_connections[e].dir = "in"

\* "We only allow one incoming connection per unique IP address."
is_duplicate(ip) == \E e \in DOMAIN m_tcp_connections : e.ip = ip

\* A variant: the ban list is not consulted.
accept_never_banned(ip) == FALSE

accept_is_banned(ip) == is_address_banned(ip)

\* A variant: one entry more than the maximum is let in.
accept_limit_exceeded == Size(m_tcp_connections) > network_tcp_inbound_maximum

accept_limit_reached == Size(m_tcp_connections) >= network_tcp_inbound_maximum

Idle == ev.op = "none" /\ tick_pc = "idle"

handle_accept(ip, port) ==
    /\ Idle
    /\ Endpoint(ip, port) \in Endpoints
    /\ IF is_duplicate(ip) \/ accept_is_banned(ip) \/ accept_limit_reached
       THEN /\ ev' = [NoEv EXCEPT !.op = "handle_accept", !.ip = ip,
                                  !.port = port, !.tstop = TRUE]
            /\ UNCHANGED m_tcp_connections
       ELSE /\ Size(m_tcp_connections) < MaxConns
            /\ m_tcp_connections' =
                   Retain(m_tcp_connections, Endpoint(ip, port),
                          [dir |-> "in", status |-> "open"])
            /\ ev' = [NoEv EXCEPT !.op = "handle_accept", !.ip = ip,
                                  !.port = port, !.created = TRUE,
                                  !.started = TRUE]
    /\ UNCHANGED <<banned, network_tcp_inbound_maximum, running, stop_pc,
                   timer_wait, handlers_ok, handlers_aborted, tick_pc, tick_i,
                   tick_added>>
    /\ UNCHANGED mine_vars
    /\ UNCHANGED boot_vars
    /\ UNCHANGED <<conf_vars, db_vars>>

(***************************************************************************)
(* connect                                                                 *)
(***************************************************************************)
\* A variant: the ban list is not consulted.
connect_never_banned(ep) == FALSE

connect_is_banned(ep) == is_address_banned(ep.ip)

\* A variant: the table is not searched, the entry is overwritten.
connect_always_new(ep) == TRUE

\* m_tcp_connections.find(ep) == m_tcp_connections.end()
connect_is_new(ep) == ep \notin DOMAIN m_tcp_connections

\* The effect of connect(ep) on the table and on the record e of the call.
connect_effect(ep, e) ==
    IF connect_is_banned(ep)
    THEN /\ ev' = e
         /\ UNCHANGED m_tcp_connections
    ELSE IF connect_is_new(ep)
    THEN /\ Size(Retain(m_tcp_connections, ep, 0)) <= MaxConns
         /\ m_tcp_connections' =
                Retain(m_tcp_connections, ep,
                       [dir |-> "out", status |-> "connecting"])
         /\ ev' = [e EXCEPT !.notified = TRUE, !.created = TRUE,
                            !.started = TRUE, !.ret = TRUE]
    ELSE /\ ev' = e
         /\ UNCHANGED m_tcp_connections

connect(ep) ==
    /\ Idle
    /\ connect_effect(ep, [NoEv EXCEPT !.op = "connect", !.ip = ep.ip,
                                       !.port = ep.port])
    /\ UNCHANGED <<banned, network_tcp_inbound_maximum, running, stop_pc,
                   timer_wait, handlers_ok, handlers_aborted, tick_pc, tick_i,
                   tick_added>>
    /\ UNCHANGED mine_vars
    /\ UNCHANGED boot_vars
    /\ UNCHANGED <<conf_vars, db_vars>>

(***************************************************************************)
(* tick                                                                    *)
(***************************************************************************)
\* A variant: every entry whose handle locks stays.
prune_keeps_alive(c) == c.status # "expired"

\* The prune loop: entries that stay, and entries whose connection is stopped.
prune_keeps(c) == c.status \in {"open", "connecting"}

prune_stops(c) == Alive(c) /\ ~prune_keeps(c)

\* A variant: no wait is issued.
arm_nothing == UNCHANGED <<timer_wait, handlers_aborted>>

\* timer_.expires_from_now(8 s) cancels a pending wait; async_wait adds one.
arm_timer ==
    /\ timer_wait' = TRUE
    /\ handlers_aborted' = handlers_aborted + (IF timer_wait THEN 1 ELSE 0)

publish(t) == IF Size(t) > 0 THEN "Connected" ELSE "Connecting"

\* if (m_tcp_connections.size() < minimum_tcp_connections + 1)
needs_top_up(t) == Size(t) < minimum_tcp_connections + 1

\* tick(ec) with ec set: the wait was cancelled.
tick_aborted ==
    /\ Idle
    /\ handlers_aborted > 0
    /\ handlers_aborted' = handlers_aborted - 1
    /\ ev' = [NoEv EXCEPT !.op = "tick_aborted"]
    /\ UNCHANGED <<m_tcp_connections, banned, network_tcp_inbound_maximum,
                   running, stop_pc, timer_wait, handlers_ok, tick_pc, tick_i,
                   tick_added>>
    /\ UNCHANGED mine_vars
    /\ UNCHANGED boot_vars
    /\ UNCHANGED <<conf_vars, db_vars>>

\* tick(success) up to the top-up loop; without top-up, to its end.
tick_begin ==
    /\ Idle
    /\ handlers_ok > 0
    /\ handlers_ok' = handlers_ok - 1
    /\ LET gone == {e \in DOMAIN m_tcp_connections :
                        ~prune_keeps(m_tcp_connections[e])}
           halted == {e \in DOMAIN m_tcp_connections :
                        prune_stops(m_tcp_connections[e])}
           lost == {e \in DOMAIN m_tcp_connections :
                        ~Alive(m_tcp_connections[e])}
           t == Erase(m_tcp_connections, gone)
       IN  /\ m_tcp_connections' = t
           /\ IF needs_top_up(t)
              THEN /\ tick_pc' = "top_up"
                   /\ tick_i' = 0
                   /\ tick_added' = {}
                   /\ ev' = [NoEv EXCEPT !.op = "tick_prune",
                                         !.stopped = halted,
                                         !.skipped = lost]
                   /\ UNCHANGED <<timer_wait, handlers_aborted>>
              ELSE /\ arm_timer
                   /\ ev' = [NoEv EXCEPT !.op = "tick_no_top_up",
                                         !.stopped = halted, !.armed = TRUE,
                                         !.skipped = lost,
                                         !.delay = 8, !.status = publish(t)]
                   /\ UNCHANGED <<tick_pc, tick_i, tick_added>>
    /\ UNCHANGED <<banned, network_tcp_inbound_maximum, running, stop_pc>>
    /\ UNCHANGED mine_vars
    /\ UNCHANGED boot_vars
    /\ UNCHANGED <<conf_vars, db_vars>>

\* A variant: the bound of the loop does not take the table into account.
top_up_fixed == tick_i < minimum_tcp_connections

\* A variant: the top-up loop has no iteration.
top_up_never == FALSE

\* i < minimum_tcp_connections - m_tcp_connections.size()
top_up_continues ==
    tick_i < minimum_tcp_connections - Size(m_tcp_connections)

\* "Only connect to one peer per group": the entries compared are those whose
\* connection and transport are alive and whose socket reports a remote
\* endpoint (an exception of remote_endpoint() is swallowed).
is_in_same_group(ip) ==
    \E e \in DOMAIN m_tcp_connections :
        /\ m_tcp_connections[e].status = "open"
        /\ group(e.ip) = group(ip)

\* A variant: retries are held back for one minute only.
too_soon_one_minute(age) == age < 60

\* time::instance().get_adjusted() - addr.last_try < 600
too_soon(age) == age < retry_interval

\* One iteration of the top-up loop, for the candidate c that select returns.
tick_top_up(c, clk) ==
    /\ ev.op = "none"
    /\ tick_pc = "top_up"
    /\ top_up_continues
    /\ tick_i' = tick_i + 1
    /\ LET e == [NoEv EXCEPT !.op = "tick_top_up", !.ip = c.ip,
                             !.port = c.port, !.valid = c.valid,
                             !.local = c.local,
                             !.age = clk.now - clk.last_try]
       IN  IF ~c.valid \/ c.local \/ is_in_same_group(c.ip)
           THEN /\ ev' = e
                /\ UNCHANGED m_tcp_connections
           ELSE IF too_soon(clk.now - clk.last_try)
           THEN /\ ev' = e
                /\ UNCHANGED m_tcp_connections
           ELSE connect_effect(Endpoint(c.ip, c.port),
                               [e EXCEPT !.called = TRUE])
    /\ tick_added' = IF ev'.created
                     THEN tick_added \cup {Endpoint(c.ip, c.port)}
                     ELSE tick_added
    /\ UNCHANGED <<banned, network_tcp_inbound_maximum, running, stop_pc,
                   timer_wait, handlers_ok, handlers_aborted, tick_pc>>
    /\ UNCHANGED mine_vars
    /\ UNCHANGED boot_vars
    /\ UNCHANGED <<conf_vars, db_vars>>

\* The end of the loop: the timer is armed again and the status published.
tick_end ==
    /\ ev.op = "none"
    /\ tick_pc = "top_up"
    /\ ~top_up_continues
    /\ tick_pc' = "idle"
    /\ tick_i' = 0
    /\ tick_added' = {}
    /\ arm_timer
    /\ ev' = [NoEv EXCEPT !.op = "tick_end", !.armed = TRUE, !.delay = 8,
                          !.added = tick_added,
                          !.status = publish(m_tcp_connections)]
    /\ UNCHANGED <<m_tcp_connections, banned, network_tcp_inbound_maximum,
                   running, stop_pc, handlers_ok>>
    /\ UNCHANGED mine_vars
    /\ UNCHANGED boot_vars
    /\ UNCHANGED <<conf_vars, db_vars>>

(***************************************************************************)
(* start and do_resolve                                                    *)
(***************************************************************************)
Hosts == 1 .. MaxBootstrap

\* The vectors of queries start() can hand to do_resolve: the bootstrap
\* nodes of the configuration, one or more, in the order std::random_shuffle
\* leaves them in.
BootstrapQueries ==
    {q \in UNION {[1 .. n -> Hosts] : n \in 1 .. MaxBootstrap} :
        \A i, j \in DOMAIN q : i # j => q[i] # q[j]}

\* An operation of the resolver: the queries its handler has captured, and
\* pending or the error code it has completed with.
Operations ==
    [queries : BootstrapQueries,
     ec : {"pending", "success", "error", "aborted"}]

\* No completion handler of the resolver runs.
NoHandler == [queries |-> <<>>, ec |-> "none"]

\* The bootstrap resolution of a list of one host has completed.
BootDone ==
    /\ queries = <<1>>
    /\ resolver_ops = {}
    /\ handler = NoHandler
    /\ attempts = <<1>>
    /\ outcomes = <<"success">>
    /\ address_book = <<1>>

\* The strand a completion handler is wrapped in: tick in the strand of
\* globals::instance(), the handler of do_resolve in strand_.
strand_of(h) == IF h = "tick" THEN "globals::strand" ELSE "strand_"

\* The handler is being executed by a thread of the io_service.
runs(h) == IF h = "tick" THEN tick_pc # "idle" ELSE handler # NoHandler

\* A strand runs one of its handlers at a time; the threads of the
\* io_service run the handlers of different strands in parallel.
strand_busy(s) ==
    \E h \in {"tick", "resolve"} : strand_of(h) = s /\ runs(h)

\* resolver_.async_resolve(queries.front(), strand_.wrap(...)): the handler
\* captures queries by value.
do_resolve(q) ==
    /\ resolver_ops' = resolver_ops \cup {[queries |-> q, ec |-> "pending"]}
    /\ attempts' = Append(attempts, Head(q))

\* start(): the queries are built and shuffled, resolution starts with the
\* first of them, the timer is set to 1 s.
tcp_start(q) ==
    /\ Idle
    /\ ~running
    /\ stop_pc = "idle"
    /\ queries = <<>>
    /\ queries' = q
    /\ do_resolve(q)
    /\ running' = TRUE
    /\ arm_timer
    /\ ev' = [NoEv EXCEPT !.op = "start", !.armed = TRUE, !.delay = 1]
    /\ UNCHANGED <<m_tcp_connections, banned, network_tcp_inbound_maximum,
                   stop_pc, handlers_ok, tick_pc, tick_i, tick_added>>
    /\ UNCHANGED <<handler, outcomes, address_book>>
    /\ UNCHANGED mine_vars
    /\ UNCHANGED <<conf_vars, db_vars>>

\* The resolver completes an operation, with an endpoint or with an error:
\* its handler is queued on strand_.
resolve_completes(op, ec) ==
    /\ op \in resolver_ops
    /\ op.ec = "pending"
    /\ resolver_ops' = (resolver_ops \ {op}) \cup {[op EXCEPT !.ec = ec]}
    /\ UNCHANGED <<queries, handler, attempts, outcomes, address_book>>
    /\ UNCHANGED conn_vars
    /\ UNCHANGED mine_vars
    /\ UNCHANGED <<conf_vars, db_vars>>

\* resolver_.cancel(): every operation in flight completes with
\* operation_aborted.
cancelled(ops) ==
    {[o EXCEPT !.ec = IF o.ec = "pending" THEN "aborted" ELSE o.ec] :
         o \in ops}

\* The handler up to the end of its if (ec) ... else: a resolved endpoint is
\* added to the address manager.
resolve_handler_begin(op) ==
    /\ op \in resolver_ops
    /\ op.ec # "pending"
    /\ ~strand_busy(strand_of("resolve"))
    /\ resolver_ops' = resolver_ops \ {op}
    /\ handler' = op
    /\ outcomes' = Append(outcomes, op.ec)
    /\ address_book' = IF op.ec = "success"
                       THEN Append(address_book, Head(op.queries))
                       ELSE address_book
    /\ UNCHANGED <<queries, attempts>>
    /\ UNCHANGED conn_vars
    /\ UNCHANGED mine_vars
    /\ UNCHANGED <<conf_vars, db_vars>>

\* A variant: after an error the rest of the queries is dropped.
next_unless_failed(h) == IF h.ec = "success" THEN Tail(h.queries) ELSE <<>>

\* auto tmp = queries; tmp.erase(tmp.begin());
next_queries(h) == Tail(h.queries)

\* The rest of the handler: if (tmp.size() > 0) do_resolve(tmp).
resolve_handler_end ==
    /\ handler # NoHandler
    /\ IF Len(next_queries(handler)) > 0
       THEN do_resolve(next_queries(handler))
       ELSE UNCHANGED <<resolver_ops, attempts>>
    /\ handler' = NoHandler
    /\ UNCHANGED <<queries, outcomes, address_book>>
    /\ UNCHANGED conn_vars
    /\ UNCHANGED mine_vars
    /\ UNCHANGED <<conf_vars, db_vars>>

(***************************************************************************)
(* stop                                                                    *)
(***************************************************************************)
\* resolver_.cancel(); timer_.cancel(): a pending wait completes as aborted.
\* Both run before the table's mutex is taken.
stop_cancel ==
    /\ ev.op = "none"
    /\ running
    /\ stop_pc = "idle"
    /\ running' = FALSE
    /\ stop_pc' = "lock"
    /\ timer_wait' = FALSE
    /\ handlers_aborted' = handlers_aborted + (IF timer_wait THEN 1 ELSE 0)
    /\ ev' = [NoEv EXCEPT !.op = "stop_cancel"]
    /\ resolver_ops' = cancelled(resolver_ops)
    /\ UNCHANGED <<m_tcp_connections, banned, network_tcp_inbound_maximum,
                   handlers_ok, tick_pc, tick_i, tick_added>>
    /\ UNCHANGED <<queries, handler, attempts, outcomes, address_book>>
    /\ UNCHANGED mine_vars
    /\ UNCHANGED <<conf_vars, db_vars>>

\* Under the mutex: stop every live connection, clear the table.
stop_clear ==
    /\ Idle
    /\ stop_pc = "lock"
    /\ stop_pc' = "idle"
    /\ m_tcp_connections' = Erase(m_tcp_connections, DOMAIN m_tcp_connections)
    /\ ev' = [NoEv EXCEPT !.op = "stop",
                          !.stopped = {e \in DOMAIN m_tcp_connections :
                                           Alive(m_tcp_connections[e])},
                          !.skipped = {e \in DOMAIN m_tcp_connections :
                                           ~Alive(m_tcp_connections[e])}]
    /\ UNCHANGED <<banned, network_tcp_inbound_maximum, running, timer_wait,
                   handlers_ok, handlers_aborted, tick_pc, tick_i, tick_added>>
    /\ UNCHANGED mine_vars
    /\ UNCHANGED boot_vars
    /\ UNCHANGED <<conf_vars, db_vars>>

(***************************************************************************)
(* broadcast                                                               *)
(***************************************************************************)
\* A variant: the loop sends to the first live connection only.
first_send_only(t, keys) ==
    IF \E k \in keys : Alive(t[k])
    THEN <<CHOOSE k \in keys : Alive(t[k])>>
    ELSE <<>>

\* for (auto & i : m_tcp_connections) if (auto j = i.second.lock())
\* j->send(buf, len): the sends of the loop over the keys, in their order.
RECURSIVE for_each_send(_, _)
for_each_send(t, keys) ==
    IF keys = {}
    THEN <<>>
    ELSE LET e == CHOOSE k \in keys : TRUE
         IN  (IF Alive(t[e]) THEN <<e>> ELSE <<>>) \o
                 for_each_send(t, keys \ {e})

broadcast ==
    /\ Idle
    /\ ev' = [NoEv EXCEPT !.op = "broadcast",
                          !.sent = for_each_send(m_tcp_connections,
                                                 DOMAIN m_tcp_connections),
                          !.skipped = {e \in DOMAIN m_tcp_connections :
                                           ~Alive(m_tcp_connections[e])}]
    /\ UNCHANGED <<m_tcp_connections, banned, network_tcp_inbound_maximum,
                   running, stop_pc, timer_wait, handlers_ok, handlers_aborted,
                   tick_pc, tick_i, tick_added>>
    /\ UNCHANGED mine_vars
    /\ UNCHANGED boot_vars
    /\ UNCHANGED <<conf_vars, db_vars>>

(***************************************************************************)
(* The environment of the connection manager.                              *)
(***************************************************************************)
\* The call that has just run returns to its caller.
call_returns ==
    /\ ev.op # "none"
    /\ ev' = NoEv
    /\ UNCHANGED <<m_tcp_connections, banned, network_tcp_inbound_maximum,
                   running, stop_pc, timer_wait, handlers_ok, handlers_aborted,
                   tick_pc, tick_i, tick_added>>
    /\ UNCHANGED mine_vars
    /\ UNCHANGED boot_vars
    /\ UNCHANGED <<conf_vars, db_vars>>

\* The pending wait of timer_ expires: tick(success) is queued on the strand.
timer_expires ==
    /\ ev.op = "none"
    /\ timer_wait
    /\ timer_wait' = FALSE
    /\ handlers_ok' = handlers_ok + 1
    /\ UNCHANGED <<m_tcp_connections, banned, network_tcp_inbound_maximum,
                   running, stop_pc, handlers_aborted, tick_pc, tick_i,
                   tick_added, ev>>
    /\ UNCHANGED mine_vars
    /\ UNCHANGED boot_vars
    /\ UNCHANGED <<conf_vars, db_vars>>

\* What happens to a connection the table refers to: an outgoing connection
\* is established, a transport is lost, a connection object is destroyed.
connection_changes(e, s) ==
    /\ ev.op = "none"
    /\ e \in DOMAIN m_tcp_connections
    /\ \/ s = "open" /\ m_tcp_connections[e].status = "connecting"
       \/ /\ s = "invalid"
          /\ m_tcp_connections[e].status \in {"connecting", "open"}
       \/ s = "expired" /\ Alive(m_tcp_connections[e])
    /\ m_tcp_connections' = [m_tcp_connections EXCEPT ![e].status = s]
    /\ UNCHANGED <<banned, network_tcp_inbound_maximum, running, stop_pc,
                   timer_wait, handlers_ok, handlers_aborted, tick_pc, tick_i,
                   tick_added,                   ev>>
    /\ UNCHANGED mine_vars
    /\ UNCHANGED boot_vars
    /\ UNCHANGED <<conf_vars, db_vars>>

\* The ban list of the address book changes.
ban_changes(ip) ==
    /\ ev.op = "none"
    /\ \/ ip \notin banned /\ Cardinality(banned) < MaxBanned
          /\ banned' = banned \cup {ip}
       \/ ip \in banned /\ banned' = banned \ {ip}
    /\ UNCHANGED <<m_tcp_connections, network_tcp_inbound_maximum, running,
                   stop_pc, timer_wait, handlers_ok, handlers_aborted, tick_pc,
                   tick_i, tick_added, ev>>
    /\ UNCHANGED mine_vars
    /\ UNCHANGED boot_vars
    /\ UNCHANGED <<conf_vars, db_vars>>

(***************************************************************************)
(* The mining manager.                                                     *)
(***************************************************************************)
Workers == {"pow", "pos"}

is_proof_of_stake(w) == w = "pos"

NoBlock == [parent |-> 0]

NoBuild == [parent |-> 0, nonce |-> 0]

\* No check_work is on record.
NoWork == [by |-> "none", index |-> 0, best |-> 0, posted |-> FALSE,
           parent |-> 0, within |-> FALSE, kept |-> FALSE, counted |-> FALSE]

\* The record of a check_work ends with the next step of its caller.
work_forgotten(w) == work' = IF work.by = w THEN NoWork ELSE work

\* mutex_ is free.
NoCall == [by |-> "none", call |-> "none", mode |-> "none", at |-> "none",
           found |-> "none", acted |-> FALSE, rate |-> 0]

\* args.find("mine-cpu"): no such argument, or its value as std::stoi reads
\* it.
NoArg == [present |-> FALSE, value |-> 0]

MineCpuArgs ==
    {NoArg} \cup {[present |-> TRUE, value |-> v] : v \in {0, MaxMineCpu}}

\* The mining manager after its constructor; no worker thread exists.
MiningConstructed ==
    /\ m_state_pow = "none"
    /\ m_state_pos = "none"
    /\ globals_state = "started"
    /\ initial_block_download = FALSE
    /\ wallet_locked = FALSE
    /\ best = 1
    /\ hash_previous = 0
    /\ pc = [w \in Workers |-> "off"]
    /\ extra_nonce = [w \in Workers |-> 0]
    /\ blk = [w \in Workers |-> NoBlock]
    /\ index_previous = [w \in Workers |-> 0]
    /\ last_build = [w \in Workers |-> NoBuild]
    /\ m_hashes_per_second = 0
    /\ m_hps_timer_start = 0
    /\ posted = <<>>
    /\ work = NoWork
    /\ mutex_ = NoCall
    /\ stack_next = "none"
    /\ threads_ = 0
    /\ loops_performed = 0

\* stack_impl::get_block_index_best() and globals::hash_best_chain(): the
\* acceptance pipeline moves both to the new tip together.
get_block_index_best == best

hash_best_chain == best

\* The condition of the outer loop and of the hashing loop of loop().
loop_condition(w) ==
    /\ \/ m_state_pow \in {"starting", "started"}
       \/ m_state_pos \in {"starting", "started"} /\ is_proof_of_stake(w)
    /\ globals_state = "started"

\* What every step of a worker leaves as it is.
worker_frame ==
    /\ UNCHANGED <<m_state_pow, m_state_pos, globals_state,
                   initial_block_download, wallet_locked, best, mutex_,
                   stack_next, args, threads_>>
    /\ UNCHANGED conn_vars
    /\ UNCHANGED boot_vars
    /\ UNCHANGED <<conf_vars, db_vars>>

\* while (loop condition): enter the body, or leave loop(): the thread ends.
loop_outer(w) ==
    /\ pc[w] = "outer"
    /\ pc' = [pc EXCEPT ![w] = IF loop_condition(w) THEN "sync" ELSE "done"]
    /\ work_forgotten(w)
    /\ UNCHANGED <<hash_previous, extra_nonce, blk, index_previous, last_build,
                   m_hashes_per_second, m_hps_timer_start, posted>>
    /\ UNCHANGED loops_performed
    /\ worker_frame

\* mutex_tcp_connections_ is held: tick() is between its first and its last
\* statement; every other member function runs as one step.
table_locked == tick_pc # "idle"

\* The wait for the chain download and for a first peer, for the size the
\* worker has read: sleep 1 s and test again, or go on.
waits_for_network(size) ==
    /\ initial_block_download \/ size = 0
    /\ globals_state = "started"

\* The head of the wait. During the download the table is not looked at;
\* otherwise tcp_connections() takes the lock of the table, returns a
\* reference to the table and releases the lock.
loop_sync(w) ==
    /\ pc[w] = "sync"
    /\ IF initial_block_download
       THEN pc' = [pc EXCEPT ![w] =
                      IF waits_for_network(0) THEN "sync" ELSE "wallet"]
       ELSE /\ ~table_locked
            /\ pc' = [pc EXCEPT ![w] = "size"]
    /\ UNCHANGED <<hash_previous, extra_nonce, blk, index_previous, last_build,
                   m_hashes_per_second, m_hps_timer_start, posted, work>>
    /\ UNCHANGED loops_performed
    /\ worker_frame

\* What size() of the returned reference can give: the size of the table,
\* or, read while another thread changes the table, any value.
sizes_seen ==
    IF table_locked THEN 0 .. MaxConns ELSE {Size(m_tcp_connections)}

\* .size() == 0 on the reference, with no lock held.
loop_size(w, seen) ==
    /\ pc[w] = "size"
    /\ seen \in sizes_seen
    /\ pc' = [pc EXCEPT ![w] =
                 IF waits_for_network(seen) THEN "sync" ELSE "wallet"]
    /\ UNCHANGED <<hash_previous, extra_nonce, blk, index_previous, last_build,
                   m_hashes_per_second, m_hps_timer_start, posted, work>>
    /\ UNCHANGED loops_performed
    /\ worker_frame

\* The wait for the wallet to be unlocked.
waits_for_wallet == wallet_locked /\ globals_state = "started"

loop_wallet(w) ==
    /\ pc[w] = "wallet"
    /\ pc' = [pc EXCEPT ![w] = IF waits_for_wallet THEN "wallet" ELSE "create"]
    /\ UNCHANGED <<hash_previous, extra_nonce, blk, index_previous, last_build,
                   m_hashes_per_second, m_hps_timer_start, posted, work>>
    /\ UNCHANGED loops_performed
    /\ worker_frame

\* A variant: without a block the worker begins the next iteration.
retry_after_no_block == "outer"

\* if (blk == 0) return;
after_no_block == "done"

\* block::create_new: no block (the thread returns from loop()), or a
\* candidate on the best tip.
loop_create(w, made) ==
    /\ pc[w] = "create"
    /\ IF made
       THEN /\ pc' = [pc EXCEPT ![w] = "index"]
            /\ blk' = [blk EXCEPT ![w] = [parent |-> hash_best_chain]]
       ELSE /\ pc' = [pc EXCEPT ![w] = after_no_block]
            /\ UNCHANGED blk
    /\ UNCHANGED <<hash_previous, extra_nonce, index_previous, last_build,
                   m_hashes_per_second, m_hps_timer_start, posted, work>>
    /\ UNCHANGED loops_performed
    /\ worker_frame

\* auto index_previous = stack_impl::get_block_index_best();
loop_index(w) ==
    /\ pc[w] = "index"
    /\ pc' = [pc EXCEPT ![w] = "nonce"]
    /\ index_previous' = [index_previous EXCEPT ![w] = get_block_index_best]
    /\ UNCHANGED <<hash_previous, extra_nonce, blk, last_build,
                   m_hashes_per_second, m_hps_timer_start, posted, work>>
    /\ UNCHANGED loops_performed
    /\ worker_frame

\* The values hash_previous holds: no hash yet, a tip, or the mix that two
\* unsynchronized writes of different hashes can leave.
Torn == -1

\* The counter, held at the largest value the model counts to.
counted(n) == IF n < MaxExtraNonce THEN n ELSE MaxExtraNonce

\* The worker's build is complete: the script of the coinbase input holds
\* the height and extra_nonce, the merkle root is rebuilt.
build_done(w, n) ==
    /\ extra_nonce' = [extra_nonce EXCEPT ![w] = n]
    /\ last_build' = [last_build EXCEPT ![w] =
                         [parent |-> blk[w].parent, nonce |-> n]]
    /\ pc' = [pc EXCEPT ![w] = IF is_proof_of_stake(w) THEN "stake" ELSE "hash"]

\* if (hash_previous != blk->header().hash_previous_block)
parent_changed(w) == hash_previous # blk[w].parent

\* increment_extra_nonce up to the test of hash_previous; with the parent
\* unchanged, to its end.
nonce_compare(w) ==
    /\ pc[w] = "nonce"
    /\ IF parent_changed(w)
       THEN /\ pc' = [pc EXCEPT ![w] = "nonce_reset"]
            /\ UNCHANGED <<extra_nonce, last_build>>
       ELSE build_done(w, counted(extra_nonce[w] + 1))
    /\ UNCHANGED <<hash_previous, blk, index_previous, m_hashes_per_second,
                   m_hps_timer_start, posted, work>>
    /\ UNCHANGED loops_performed
    /\ worker_frame

\* Another worker is about to write a different hash to hash_previous.
write_races(w) ==
    \E v \in Workers \ {w} :
        pc[v] = "nonce_reset" /\ blk[v].parent # blk[w].parent

\* extra_nonce = 0; hash_previous = ...; ++extra_nonce and the rest of
\* increment_extra_nonce.
nonce_reset(w, torn) ==
    /\ pc[w] = "nonce_reset"
    /\ torn => write_races(w)
    /\ hash_previous' = IF torn THEN Torn ELSE blk[w].parent
    /\ build_done(w, 0 + 1)
    /\ UNCHANGED <<blk, index_previous, m_hashes_per_second,
                   m_hps_timer_start, posted, work>>
    /\ UNCHANGED loops_performed
    /\ worker_frame

\* The locals of one iteration of the outer loop end with it.
next_iteration(w) ==
    /\ blk' = [blk EXCEPT ![w] = NoBlock]
    /\ index_previous' = [index_previous EXCEPT ![w] = 0]

\* The proof-of-stake branch up to check_work: a candidate that is no stake
\* block goes on to the throttle; a stake block that cannot be signed ends
\* the iteration.
loop_stake(w, stake, signed) ==
    /\ pc[w] = "stake"
    /\ stake \/ signed
    /\ IF ~stake
       THEN /\ pc' = [pc EXCEPT ![w] = "sleep"]
            /\ UNCHANGED <<blk, index_previous>>
       ELSE IF signed
       THEN /\ pc' = [pc EXCEPT ![w] = "check_work"]
            /\ UNCHANGED <<blk, index_previous>>
       ELSE /\ pc' = [pc EXCEPT ![w] = "outer"]
            /\ next_iteration(w)
    /\ UNCHANGED <<hash_previous, extra_nonce, last_build,
                   m_hashes_per_second, m_hps_timer_start, posted, work,
                   loops_performed>>
    /\ worker_frame

\* A check_work without the test of the parent.
is_never_stale(b) == FALSE

\* The block is stale: its parent is not the best chain's hash.
is_stale(b) == b.parent # hash_best_chain

\* A check_work without the test of the target.
exceeds_never(w, within) == FALSE

\* if (hash_block > hash_target && blk->is_proof_of_work()): within says
\* that blk->get_hash(), as check_work computes it, is not above the target
\* of the block's bits; the proof-of-stake worker hands over stake blocks
\* only.
exceeds_target(w, within) == ~within /\ ~is_proof_of_stake(w)

\* check_work: a proof-of-work block above its target and a stale block are
\* dropped; for any other the reserved key is kept, the count of getdata
\* requests of its hash is set to 0 and the block is posted to the strand
\* for process_block.
check_work(w, within) ==
    /\ pc[w] = "check_work"
    /\ IF exceeds_target(w, within) \/ is_stale(blk[w])
       THEN /\ UNCHANGED posted
            /\ work' = [by |-> w, index |-> index_previous[w],
                        best |-> get_block_index_best, posted |-> FALSE,
                        parent |-> blk[w].parent, within |-> within,
                        kept |-> FALSE, counted |-> FALSE]
       ELSE /\ Len(posted) < MaxPosted
            /\ posted' = Append(posted, blk[w])
            /\ work' = [by |-> w, index |-> index_previous[w],
                        best |-> get_block_index_best, posted |-> TRUE,
                        parent |-> blk[w].parent, within |-> within,
                        kept |-> TRUE, counted |-> TRUE]
    /\ IF is_proof_of_stake(w)
       THEN /\ pc' = [pc EXCEPT ![w] = "sleep"]
            /\ UNCHANGED <<blk, index_previous>>
       ELSE /\ pc' = [pc EXCEPT ![w] = "outer"]
            /\ next_iteration(w)
    /\ UNCHANGED <<hash_previous, extra_nonce, last_build,
                   m_hashes_per_second, m_hps_timer_start, loops_performed>>
    /\ worker_frame

\* enum { loop_count = 120 }: the throttle is modelled with a shorter count.
loop_count == 2

\* A throttle that sleeps whatever the two states are.
flags_unread(w) == TRUE

\* m_state_pos == state_pos_started && is_proof_of_stake &&
\* globals::instance().state() == globals::state_started
flags_allow(w) ==
    /\ m_state_pos = "started"
    /\ is_proof_of_stake(w)
    /\ globals_state = "started"

\* One evaluation of the condition of the throttle, on a loops_performed
\* that is 0 when the wait is entered: the three tests and, only when they
\* pass, loops_performed++ < loop_count; then sleep_for(500 ms) and the
\* next evaluation, or the continue of the outer loop, where the local ends.
loop_sleep(w) ==
    /\ pc[w] = "sleep"
    /\ IF flags_allow(w) /\ loops_performed < loop_count
       THEN /\ loops_performed' = loops_performed + 1
            /\ UNCHANGED <<pc, blk, index_previous>>
       ELSE /\ loops_performed' = 0
            /\ pc' = [pc EXCEPT ![w] = "outer"]
            /\ next_iteration(w)
    /\ work_forgotten(w)
    /\ UNCHANGED <<hash_previous, extra_nonce, last_build,
                   m_hashes_per_second, m_hps_timer_start, posted>>
    /\ worker_frame

\* The head of the hashing loop.
loop_hash(w) ==
    /\ pc[w] = "hash"
    /\ IF loop_condition(w)
       THEN /\ pc' = [pc EXCEPT ![w] = "scan"]
            /\ UNCHANGED <<blk, index_previous>>
       ELSE /\ pc' = [pc EXCEPT ![w] = "outer"]
            /\ next_iteration(w)
    /\ UNCHANGED <<hash_previous, extra_nonce, last_build,
                   m_hashes_per_second, m_hps_timer_start, posted, work>>
    /\ UNCHANGED loops_performed
    /\ worker_frame

\* One batch of scan_hash_whirlpool. found: a nonce whose hash meets the
\* target; it is signed (or the loop is left) and goes to check_work.
\* Otherwise the rate sample is updated: the window is opened, or, once more
\* than 4 s old, flushed into m_hashes_per_second.
loop_scan(w, found, signed, flushed) ==
    /\ pc[w] = "scan"
    /\ IF found
       THEN /\ ~flushed
            /\ IF signed
               THEN /\ pc' = [pc EXCEPT ![w] = "check_work"]
                    /\ UNCHANGED <<blk, index_previous>>
               ELSE /\ pc' = [pc EXCEPT ![w] = "outer"]
                    /\ next_iteration(w)
            /\ UNCHANGED <<m_hashes_per_second, m_hps_timer_start, work>>
       ELSE /\ signed
            /\ pc' = [pc EXCEPT ![w] = "checks"]
            /\ m_hps_timer_start' = 1
            /\ m_hashes_per_second' =
                  IF flushed /\ m_hps_timer_start # 0
                  THEN 1 ELSE m_hashes_per_second
            /\ UNCHANGED <<blk, index_previous>>
    /\ UNCHANGED <<hash_previous, extra_nonce, last_build, posted, work>>
    /\ UNCHANGED loops_performed
    /\ worker_frame

\* if (index_previous != stack_impl::get_block_index_best()) break;
tip_moved(w) == index_previous[w] # get_block_index_best

\* The end of a batch: leave the hashing loop when the node stops, the
\* transactions changed more than 60 s after the build, the nonces are used
\* up, the tip moved, or the updated timestamp drifts too far.
loop_checks(w, why) ==
    /\ pc[w] = "checks"
    /\ IF \/ globals_state # "started"
          \/ why \in {"transactions", "nonce"}
          \/ tip_moved(w)
          \/ why = "drift"
       THEN /\ pc' = [pc EXCEPT ![w] = "outer"]
            /\ next_iteration(w)
       ELSE /\ pc' = [pc EXCEPT ![w] = "hash"]
            /\ UNCHANGED <<blk, index_previous>>
    /\ UNCHANGED <<hash_previous, extra_nonce, last_build,
                   m_hashes_per_second, m_hps_timer_start, posted, work>>
    /\ UNCHANGED loops_performed
    /\ worker_frame

(***************************************************************************)
(* The environment of the mining manager.                                  *)
(***************************************************************************)
\* The acceptance pipeline accepts a block of a peer: the tip moves.
chain_advances ==
    /\ best < MaxTip
    /\ best' = best + 1
    /\ UNCHANGED <<m_state_pow, m_state_pos, globals_state, mutex_, stack_next,
                   initial_block_download, wallet_locked, hash_previous, pc,
                   extra_nonce, blk, index_previous, last_build,
                   m_hashes_per_second, m_hps_timer_start, posted, work,
                   args, threads_,
                   loops_performed>>
    /\ UNCHANGED conn_vars
    /\ UNCHANGED boot_vars
    /\ UNCHANGED <<conf_vars, db_vars>>

\* The strand runs the posted stack_impl::process_block: a block on the best
\* tip becomes the tip, any other is not accepted.
process_block ==
    /\ posted # <<>>
    /\ posted' = Tail(posted)
    /\ best' = IF Head(posted).parent = best /\ best < MaxTip
               THEN best + 1 ELSE best
    /\ UNCHANGED <<m_state_pow, m_state_pos, globals_state, mutex_, stack_next,
                   initial_block_download, wallet_locked, hash_previous, pc,
                   extra_nonce, blk, index_previous, last_build,
                   m_hashes_per_second, m_hps_timer_start, work,
                   args, threads_,
                   loops_performed>>
    /\ UNCHANGED conn_vars
    /\ UNCHANGED boot_vars
    /\ UNCHANGED <<conf_vars, db_vars>>

(***************************************************************************)
(* The mining manager with both modes started: the node runs, a peer is    *)
(* connected, both worker threads are at the head of loop().               *)
(***************************************************************************)
InitMining ==
    /\ m_tcp_connections =
          [e \in {Endpoint(1, 1)} |-> [dir |-> "in", status |-> "open"]]
    /\ banned = {}
    /\ network_tcp_inbound_maximum = 2
    /\ running = TRUE
    /\ stop_pc = "idle"
    /\ timer_wait = TRUE
    /\ handlers_ok = 0
    /\ handlers_aborted = 0
    /\ tick_pc = "idle"
    /\ tick_i = 0
    /\ tick_added = {}
    /\ ev = NoEv
    /\ m_state_pow = "started"
    /\ m_state_pos = "started"
    /\ globals_state = "started"
    /\ initial_block_download = FALSE
    /\ wallet_locked = FALSE
    /\ best = 1
    /\ hash_previous = 0
    /\ pc = [w \in Workers |-> "outer"]
    /\ extra_nonce = [w \in Workers |-> 0]
    /\ blk = [w \in Workers |-> NoBlock]
    /\ index_previous = [w \in Workers |-> 0]
    /\ last_build = [w \in Workers |-> NoBuild]
    /\ m_hashes_per_second = 0
    /\ m_hps_timer_start = 0
    /\ posted = <<>>
    /\ work = NoWork
    /\ mutex_ = NoCall
    /\ stack_next = "none"
    /\ threads_ = 1
    /\ loops_performed = 0
    /\ args = [present |-> TRUE, value |-> MaxMineCpu]
    /\ BootDone
    /\ RestConstructed

NextMining ==
    \/ \E w \in Workers : loop_outer(w)
    \/ \E w \in Workers : loop_sync(w)
    \/ \E w \in Workers, seen \in 0 .. MaxConns : loop_size(w, seen)
    \/ \E w \in Workers : loop_wallet(w)
    \/ \E w \in Workers, made \in BOOLEAN : loop_create(w, made)
    \/ \E w \in Workers : loop_index(w)
    \/ \E w \in Workers : nonce_compare(w)
    \/ \E w \in Workers, torn \in BOOLEAN : nonce_reset(w, torn)
    \/ \E w \in Workers, stake \in BOOLEAN, signed \in BOOLEAN :
           loop_stake(w, stake, signed)
    \/ \E w \in Workers, within \in BOOLEAN : check_work(w, within)
    \/ \E w \in Workers : loop_sleep(w)
    \/ \E w \in Workers : loop_hash(w)
    \/ \E w \in Workers, found \in BOOLEAN, signed \in BOOLEAN,
          flushed \in BOOLEAN : loop_scan(w, found, signed, flushed)
    \/ \E w \in Workers,
          why \in {"none", "transactions", "nonce", "drift"} :
           loop_checks(w, why)
    \/ chain_advances
    \/ process_block

SpecMining == InitMining /\ [][NextMining]_vars

(***************************************************************************)
(* The life cycle of the two mining modes.                                 *)
(***************************************************************************)
\* The threads that call the mining manager: the stack calls start() and
\* stop(), the RPC thread the four functions of the modes.
Callers == {"stack", "rpc"}

Modes == {"pow", "pos"}

\* The order of the states of a mode in its enum.
state_rank(st) ==
    CASE st = "none" -> 0
      [] st = "starting" -> 1
      [] st = "started" -> 2
      [] st = "stopping" -> 3
      [] st = "stopped" -> 4

m_state(x) == IF x = "pow" THEN m_state_pow ELSE m_state_pos

\* m_state_x = st leaves the other mode's state as it is.
set_state(x, st) ==
    /\ m_state_pow' = IF x = "pow" THEN st ELSE m_state_pow
    /\ m_state_pos' = IF x = "pos" THEN st ELSE m_state_pos

\* A variant: start does not look at the state.
can_always_start(st) == TRUE

\* if (m_state_x < state_x_starting || m_state_x == state_x_stopped)
can_start(st) == state_rank(st) < state_rank("starting") \/ st = "stopped"

\* A variant: stop goes on from every state but stopped.
can_stop_unless_stopped(st) == st # "stopped"

\* if (m_state_x == state_x_started)
can_stop(st) == st = "started"

\* The caller may begin the call: the stack thread is not between the two
\* calls of start() or stop(), or this is the second of them.
may_call(c, op) ==
    /\ mutex_ = NoCall
    /\ c = "stack" => stack_next \in {"none", op}

\* What a step of a caller leaves as it is.
caller_frame ==
    /\ UNCHANGED <<globals_state, initial_block_download, wallet_locked, best,
                   hash_previous, blk, index_previous, posted, work, args,
                   loops_performed>>
    /\ UNCHANGED conn_vars
    /\ UNCHANGED boot_vars
    /\ UNCHANGED <<conf_vars, db_vars>>

\* start_proof_of_work / start_proof_of_stake up to the thread: the lock is
\* taken, the state tested and set to starting; or the call is at its end.
start_mode(c, x) ==
    /\ may_call(c, IF x = "pow" THEN "start_proof_of_work"
                                ELSE "start_proof_of_stake")
    /\ IF can_start(m_state(x))
       THEN /\ set_state(x, "starting")
            /\ mutex_' = [NoCall EXCEPT !.by = c, !.call = "start",
                                        !.mode = x, !.at = "spawn",
                                        !.found = m_state(x), !.acted = TRUE]
       ELSE /\ mutex_' = [NoCall EXCEPT !.by = c, !.call = "start",
                                        !.mode = x, !.at = "return",
                                        !.found = m_state(x)]
            /\ UNCHANGED <<m_state_pow, m_state_pos>>
    /\ UNCHANGED <<pc, extra_nonce, last_build, m_hashes_per_second,
                   m_hps_timer_start, threads_>>
    /\ caller_frame

\* start_proof_of_work by the RPC thread, or as the second call of start().
start_proof_of_work(c) ==
    /\ c = "stack" => stack_next = "start_proof_of_work"
    /\ start_mode(c, "pow")
    /\ stack_next' = IF c = "stack" THEN "none" ELSE stack_next

\* start_proof_of_stake by the RPC thread.
start_proof_of_stake(c) ==
    /\ c # "stack"
    /\ start_mode(c, "pos")
    /\ UNCHANGED stack_next

\* if (it != args.end()) if (std::stoi(it->second) > 0)
wants_proof_of_work == args.present /\ args.value > 0

\* start(): start_proof_of_stake, then, with mine-cpu > 0,
\* start_proof_of_work.
start ==
    /\ stack_next = "none"
    /\ start_mode("stack", "pos")
    /\ stack_next' = IF wants_proof_of_work
                     THEN "start_proof_of_work" ELSE "none"

\* A variant: one thread for each configured core.
cores_as_configured == args.value

\* auto cores = 1;
cores == 1

\* The thread of the mode is created: it runs loop() with new locals.
start_spawn ==
    /\ mutex_.at = "spawn"
    /\ pc' = [pc EXCEPT ![mutex_.mode] = "outer"]
    /\ extra_nonce' = [extra_nonce EXCEPT ![mutex_.mode] = 0]
    /\ last_build' = [last_build EXCEPT ![mutex_.mode] = NoBuild]
    /\ threads_' = IF mutex_.mode = "pow" THEN threads_ + cores ELSE threads_
    /\ mutex_' = [mutex_ EXCEPT !.at = "finish"]
    /\ UNCHANGED <<m_state_pow, m_state_pos, stack_next, m_hashes_per_second,
                   m_hps_timer_start>>
    /\ caller_frame

\* m_state_x = state_x_started.
start_finish ==
    /\ mutex_.at = "finish"
    /\ set_state(mutex_.mode, "started")
    /\ mutex_' = [mutex_ EXCEPT !.at = "return"]
    /\ UNCHANGED <<pc, extra_nonce, last_build, stack_next,
                   m_hashes_per_second, m_hps_timer_start, threads_>>
    /\ caller_frame

\* stop_proof_of_work / stop_proof_of_stake up to the join.
stop_mode(c, x) ==
    /\ may_call(c, IF x = "pow" THEN "stop_proof_of_work"
                                ELSE "stop_proof_of_stake")
    /\ IF can_stop(m_state(x))
       THEN /\ set_state(x, "stopping")
            /\ mutex_' = [NoCall EXCEPT !.by = c, !.call = "stop",
                                        !.mode = x, !.at = "join",
                                        !.found = m_state(x), !.acted = TRUE]
       ELSE /\ mutex_' = [NoCall EXCEPT !.by = c, !.call = "stop",
                                        !.mode = x, !.at = "return",
                                        !.found = m_state(x)]
            /\ UNCHANGED <<m_state_pow, m_state_pos>>
    /\ UNCHANGED <<pc, extra_nonce, last_build, m_hashes_per_second,
                   m_hps_timer_start, threads_>>
    /\ caller_frame

\* stop_proof_of_work by the RPC thread, or as the second call of stop().
stop_proof_of_work(c) ==
    /\ c = "stack" => stack_next = "stop_proof_of_work"
    /\ stop_mode(c, "pow")
    /\ stack_next' = IF c = "stack" THEN "none" ELSE stack_next

\* stop_proof_of_stake by the RPC thread.
stop_proof_of_stake(c) ==
    /\ c # "stack"
    /\ stop_mode(c, "pos")
    /\ UNCHANGED stack_next

\* stop(): stop_proof_of_stake, then stop_proof_of_work.
stop ==
    /\ stack_next = "none"
    /\ stop_mode("stack", "pos")
    /\ stack_next' = "stop_proof_of_work"

\* A variant: the rate is left as the worker wrote it.
rate_kept == m_hashes_per_second

\* m_hashes_per_second = 0.0f;
rate_reset == 0

\* join() returns once the thread has left loop(); then, for proof-of-work,
\* the rate and the start of its window are reset and threads_ is cleared;
\* the state is set to stopped.
stop_join ==
    /\ mutex_.at = "join"
    /\ pc[mutex_.mode] = "done"
    /\ pc' = [pc EXCEPT ![mutex_.mode] = "off"]
    /\ IF mutex_.mode = "pow"
       THEN /\ m_hashes_per_second' = rate_reset
            /\ m_hps_timer_start' = 0
            /\ threads_' = 0
       ELSE UNCHANGED <<m_hashes_per_second, m_hps_timer_start, threads_>>
    /\ set_state(mutex_.mode, "stopped")
    /\ mutex_' = [mutex_ EXCEPT !.at = "return",
                                !.rate = m_hashes_per_second]
    /\ UNCHANGED <<extra_nonce, last_build, stack_next>>
    /\ caller_frame

\* The lock_guard releases mutex_: the call returns.
mining_call_returns ==
    /\ mutex_.at = "return"
    /\ mutex_' = NoCall
    /\ UNCHANGED <<m_state_pow, m_state_pos, pc, extra_nonce, last_build,
                   stack_next, m_hashes_per_second, m_hps_timer_start,
                   threads_>>
    /\ caller_frame

\* The chain download begins or ends.
download_changes ==
    /\ initial_block_download' = ~initial_block_download
    /\ UNCHANGED <<m_state_pow, m_state_pos, globals_state, wallet_locked,
                   best, hash_previous, pc, extra_nonce, blk, index_previous,
                   last_build, m_hashes_per_second, m_hps_timer_start, posted,
                   work, mutex_, stack_next, args, threads_,
                   loops_performed>>
    /\ UNCHANGED conn_vars
    /\ UNCHANGED boot_vars
    /\ UNCHANGED <<conf_vars, db_vars>>

\* The wallet is locked or unlocked.
wallet_changes ==
    /\ wallet_locked' = ~wallet_locked
    /\ UNCHANGED <<m_state_pow, m_state_pos, globals_state,
                   initial_block_download, best, hash_previous, pc,
                   extra_nonce, blk, index_previous, last_build,
                   m_hashes_per_second, m_hps_timer_start, posted, work,
                   mutex_, stack_next, args, threads_,
                   loops_performed>>
    /\ UNCHANGED conn_vars
    /\ UNCHANGED boot_vars
    /\ UNCHANGED <<conf_vars, db_vars>>

\* The node leaves globals::state_started: the stack is being stopped.
node_stops ==
    /\ globals_state = "started"
    /\ globals_state' = "stopping"
    /\ UNCHANGED <<m_state_pow, m_state_pos, initial_block_download,
                   wallet_locked, best, hash_previous, pc, extra_nonce, blk,
                   index_previous, last_build, m_hashes_per_second,
                   m_hps_timer_start, posted, work, mutex_, stack_next, args,
                   threads_, loops_performed>>
    /\ UNCHANGED conn_vars
    /\ UNCHANGED boot_vars
    /\ UNCHANGED <<conf_vars, db_vars>>

\* The steps of the callers.
NextCalls ==
    \/ \E c \in Callers : start_proof_of_work(c)
    \/ \E c \in Callers : start_proof_of_stake(c)
    \/ start
    \/ start_spawn
    \/ start_finish
    \/ \E c \in Callers : stop_proof_of_work(c)
    \/ \E c \in Callers : stop_proof_of_stake(c)
    \/ stop
    \/ stop_join
    \/ mining_call_returns

\* The steps of a caller inside a call.
CallGoesOn == start_spawn \/ start_finish \/ stop_join \/ mining_call_returns

\* The steps of worker w while no nonce meets the target and no stake is
\* generated.
Search(w) ==
    \/ loop_outer(w)
    \/ loop_sync(w)
    \/ \E seen \in 0 .. MaxConns : loop_size(w, seen)
    \/ loop_wallet(w)
    \/ \E made \in BOOLEAN : loop_create(w, made)
    \/ loop_index(w)
    \/ nonce_compare(w)
    \/ nonce_reset(w, FALSE)
    \/ loop_stake(w, FALSE, TRUE)
    \/ loop_sleep(w)
    \/ loop_hash(w)
    \/ \E flushed \in BOOLEAN : loop_scan(w, FALSE, TRUE, flushed)
    \/ loop_checks(w, "none")

NextSearch == \E w \in Workers : Search(w)

(***************************************************************************)
(* The mining manager from its construction on, with a peer connected.     *)
(***************************************************************************)
InitLife ==
    /\ m_tcp_connections =
          [e \in {Endpoint(1, 1)} |-> [dir |-> "in", status |-> "open"]]
    /\ banned = {}
    /\ network_tcp_inbound_maximum = 2
    /\ running = TRUE
    /\ stop_pc = "idle"
    /\ timer_wait = TRUE
    /\ handlers_ok = 0
    /\ handlers_aborted = 0
    /\ tick_pc = "idle"
    /\ tick_i = 0
    /\ tick_added = {}
    /\ ev = NoEv
    /\ MiningConstructed
    /\ args \in MineCpuArgs
    /\ BootDone
    /\ RestConstructed

\* The steps of the mining manager while the node runs.
NextRunning ==
    \/ NextCalls
    \/ NextSearch
    \/ download_changes
    \/ wallet_changes

NextLife == NextRunning \/ node_stops

SpecLife == InitLife /\ [][NextLife]_vars

\* Every worker thread goes on running, and a thread inside a call of the
\* mining manager goes on with it.
FairLife ==
    /\ \A w \in Workers : WF_vars(Search(w))
    /\ WF_vars(CallGoesOn)

\* The node goes on running.
SpecLifeFair == InitLife /\ [][NextRunning]_vars /\ FairLife

(***************************************************************************)
(* The connection manager: started, bootstrap resolution completed, the    *)
(* first wait of the timer (1 s) pending.                                  *)
(***************************************************************************)
InitConn ==
    /\ m_tcp_connections = <<>>
    /\ banned = {}
    /\ network_tcp_inbound_maximum \in InboundMaxima
    /\ running = TRUE
    /\ stop_pc = "idle"
    /\ timer_wait = TRUE
    /\ handlers_ok = 0
    /\ handlers_aborted = 0
    /\ tick_pc = "idle"
    /\ tick_i = 0
    /\ tick_added = {}
    /\ ev = NoEv
    /\ MiningConstructed
    /\ args = NoArg
    /\ BootDone
    /\ RestConstructed

NextConn ==
    \/ \E e \in Endpoints : handle_accept(e.ip, e.port)
    \/ \E e \in Endpoints : connect(e)
    \/ tick_aborted
    \/ tick_begin
    \/ \E c \in Candidates, clk \in Clock : tick_top_up(c, clk)
    \/ tick_end
    \/ stop_cancel
    \/ stop_clear
    \/ broadcast
    \/ call_returns
    \/ timer_expires
    \/ \E e \in Endpoints, s \in {"open", "invalid", "expired"} :
           connection_changes(e, s)
    \/ \E ip \in IPs : ban_changes(ip)

SpecConn == InitConn /\ [][NextConn]_vars

(***************************************************************************)
(* The table shared by the strand and a mining thread: the connection      *)
(* manager runs its timer, both mining modes are started and their workers *)
(* are at the head of loop().                                              *)
(***************************************************************************)
InitShared ==
    /\ m_tcp_connections = <<>>
    /\ banned = {}
    /\ network_tcp_inbound_maximum = 2
    /\ running = TRUE
    /\ stop_pc = "idle"
    /\ timer_wait = TRUE
    /\ handlers_ok = 0
    /\ handlers_aborted = 0
    /\ tick_pc = "idle"
    /\ tick_i = 0
    /\ tick_added = {}
    /\ ev = NoEv
    /\ m_state_pow = "started"
    /\ m_state_pos = "started"
    /\ globals_state = "started"
    /\ initial_block_download = FALSE
    /\ wallet_locked = FALSE
    /\ best = 1
    /\ hash_previous = 0
    /\ pc = [w \in Workers |-> "outer"]
    /\ extra_nonce = [w \in Workers |-> 0]
    /\ blk = [w \in Workers |-> NoBlock]
    /\ index_previous = [w \in Workers |-> 0]
    /\ last_build = [w \in Workers |-> NoBuild]
    /\ m_hashes_per_second = 0
    /\ m_hps_timer_start = 0
    /\ posted = <<>>
    /\ work = NoWork
    /\ mutex_ = NoCall
    /\ stack_next = "none"
    /\ threads_ = 1
    /\ loops_performed = 0
    /\ args = [present |-> TRUE, value |-> MaxMineCpu]
    /\ BootDone
    /\ RestConstructed

NextShared ==
    \/ timer_expires
    \/ tick_begin
    \/ \E c \in Candidates, clk \in Clock : tick_top_up(c, clk)
    \/ tick_end
    \/ call_returns
    \/ NextSearch

SpecShared == InitShared /\ [][NextShared]_vars

(***************************************************************************)
(* The maintenance tick: the connection manager is started, its bootstrap  *)
(* resolution completed, and the timer fires on a table of established     *)
(* connections, up to one more than minimum_tcp_connections.               *)
(***************************************************************************)
TickTables ==
    UNION {[S -> {[dir |-> "out", status |-> "open"]}] :
               S \in {X \in SUBSET Endpoints :
                          Cardinality(X) <= minimum_tcp_connections + 1}}

InitTick ==
    /\ m_tcp_connections \in TickTables
    /\ banned = {}
    /\ network_tcp_inbound_maximum = 2
    /\ running = TRUE
    /\ stop_pc = "idle"
    /\ timer_wait = TRUE
    /\ handlers_ok = 0
    /\ handlers_aborted = 0
    /\ tick_pc = "idle"
    /\ tick_i = 0
    /\ tick_added = {}
    /\ ev = NoEv
    /\ MiningConstructed
    /\ args = NoArg
    /\ BootDone
    /\ RestConstructed

NextTick ==
    \/ timer_expires
    \/ tick_aborted
    \/ tick_begin
    \/ \E c \in Candidates, clk \in Clock : tick_top_up(c, clk)
    \/ tick_end
    \/ stop_cancel
    \/ stop_clear
    \/ call_returns
    \/ \E e \in Endpoints, s \in {"open", "invalid", "expired"} :
           connection_changes(e, s)

SpecTick == InitTick /\ [][NextTick]_vars

(***************************************************************************)
(* The connection manager from its construction on: start() with its       *)
(* bootstrap resolution, the timer and its ticks, stop().                  *)
(***************************************************************************)
\* What select returns while the node bootstraps: valid addresses that are
\* not local and were never tried.
NewCandidates == {c \in Candidates : c.valid /\ ~c.local}

NeverTried == [now |-> 1600, last_try |-> 0]

InitBoot ==
    /\ m_tcp_connections = <<>>
    /\ banned = {}
    /\ network_tcp_inbound_maximum = 2
    /\ running = FALSE
    /\ stop_pc = "idle"
    /\ timer_wait = FALSE
    /\ handlers_ok = 0
    /\ handlers_aborted = 0
    /\ tick_pc = "idle"
    /\ tick_i = 0
    /\ tick_added = {}
    /\ ev = NoEv
    /\ MiningConstructed
    /\ args = NoArg
    /\ queries = <<>>
    /\ resolver_ops = {}
    /\ handler = NoHandler
    /\ attempts = <<>>
    /\ outcomes = <<>>
    /\ address_book = <<>>
    /\ RestConstructed

NextBoot ==
    \/ \E q \in BootstrapQueries : tcp_start(q)
    \/ \E op \in Operations, ec \in {"success", "error"} :
           resolve_completes(op, ec)
    \/ \E op \in Operations : resolve_handler_begin(op)
    \/ resolve_handler_end
    \/ timer_expires
    \/ tick_aborted
    \/ tick_begin
    \/ \E c \in NewCandidates : tick_top_up(c, NeverTried)
    \/ tick_end
    \/ stop_cancel
    \/ stop_clear
    \/ call_returns

SpecBoot == InitBoot /\ [][NextBoot]_vars

(***************************************************************************)
(* The maintenance tick with an address book that has addresses to offer   *)
(* and connections that are not lost: the timer fires, the strand runs the *)
(* tick, and outgoing connections are established.                         *)
(***************************************************************************)
\* An address the top-up loop connects to: valid, not local, in no group of
\* an established connection, not banned, and not yet in the table.
eligible(c) ==
    /\ c.valid
    /\ ~c.local
    /\ ~is_in_same_group(c.ip)
    /\ ~connect_is_banned(Endpoint(c.ip, c.port))
    /\ connect_is_new(Endpoint(c.ip, c.port))

\* The address book has an eligible address.
Offers == \E c \in Candidates : eligible(c)

\* address_manager::select returns an eligible address whenever the address
\* book has one, with its last attempt more than retry_interval ago.
offered_top_up ==
    \E c \in Candidates :
       /\ Offers => eligible(c)
       /\ tick_top_up(c, NeverTried)

\* The steps of the timer and of the strand that runs tick().
Ticking ==
    \/ timer_expires
    \/ tick_begin
    \/ offered_top_up
    \/ tick_end
    \/ call_returns

NextGrow ==
    \/ Ticking
    \/ \E e \in Endpoints : connection_changes(e, "open")

\* A pending wait of the timer expires, and the thread of the io_service
\* runs the handler it has queued to its end.
FairGrow == WF_vars(Ticking)

SpecGrow == InitTick /\ [][NextGrow]_vars /\ FairGrow

(***************************************************************************)
(* The configuration: its inbound maximum through load(), save() and       *)
(* set_network_tcp_inbound_maximum, with a file that changes.              *)
(***************************************************************************)
\* What every step of the configuration leaves as it is.
conf_frame ==
    /\ UNCHANGED <<m_tcp_connections, banned, running, stop_pc, timer_wait,
                   handlers_ok, handlers_aborted, tick_pc, tick_i, tick_added,
                   ev>>
    /\ UNCHANGED mine_vars
    /\ UNCHANGED boot_vars
    /\ UNCHANGED db_vars

\* pt.get(key, std::to_string(network::tcp_inbound_maximum)): the text of
\* the key, or that of the default.
pt_get(t) ==
    IF t.kind = "absent"
    THEN [kind |-> "number", value |-> tcp_inbound_maximum]
    ELSE t

\* std::stoul throws std::invalid_argument or std::out_of_range.
stoul_throws(t) == t.kind = "junk" \/ t.value > size_max

\* std::stoul of the text of a number: a negative number wraps around.
stoul(t) == IF t.value < 0 THEN size_max + 1 + t.value ELSE t.value

\* A variant: the value is stored as it was read.
unclamped(v) == v

\* if (val < network::tcp_inbound_minimum) minimum, else val
clamped(v) == IF v < tcp_inbound_minimum THEN tcp_inbound_minimum ELSE v

\* load(): an exception of read_json or of std::stoul leaves the member as
\* it is and gives false; otherwise the value read is stored, raised to the
\* minimum when below it.
load ==
    /\ conf_call.op = "none"
    /\ IF config_dat.kind = "missing" \/ stoul_throws(pt_get(config_dat))
       THEN /\ UNCHANGED network_tcp_inbound_maximum
            /\ conf_call' = [NoConfCall EXCEPT !.op = "load"]
       ELSE /\ network_tcp_inbound_maximum' =
                   clamped(stoul(pt_get(config_dat)))
            /\ conf_call' = [NoConfCall EXCEPT !.op = "load", !.ret = TRUE]
    /\ UNCHANGED config_dat
    /\ conf_frame

\* save(): the file is written with std::to_string of the member, or an
\* exception leaves it as it is and gives false.
save(written) ==
    /\ conf_call.op = "none"
    /\ IF written
       THEN config_dat' =
               [kind |-> "number", value |-> network_tcp_inbound_maximum]
       ELSE UNCHANGED config_dat
    /\ conf_call' = [NoConfCall EXCEPT !.op = "save", !.ret = written]
    /\ UNCHANGED network_tcp_inbound_maximum
    /\ conf_frame

set_network_tcp_inbound_maximum(val) ==
    /\ conf_call.op = "none"
    /\ network_tcp_inbound_maximum' = clamped(val)
    /\ conf_call' = [NoConfCall EXCEPT !.op = "set", !.arg = val]
    /\ UNCHANGED config_dat
    /\ conf_frame

\* The call of the configuration returns.
conf_returns ==
    /\ conf_call.op # "none"
    /\ conf_call' = NoConfCall
    /\ UNCHANGED <<config_dat, network_tcp_inbound_maximum>>
    /\ conf_frame

\* The file is edited, replaced or removed outside the program.
file_changes(t) ==
    /\ conf_call.op = "none"
    /\ t # config_dat
    /\ config_dat' = t
    /\ UNCHANGED <<conf_call, network_tcp_inbound_maximum>>
    /\ conf_frame

\* configuration(): m_network_tcp_inbound_maximum(
\* network::tcp_inbound_maximum), before a first file is written.
InitConfig ==
    /\ m_tcp_connections = <<>>
    /\ banned = {}
    /\ network_tcp_inbound_maximum = tcp_inbound_maximum
    /\ running = FALSE
    /\ stop_pc = "idle"
    /\ timer_wait = FALSE
    /\ handlers_ok = 0
    /\ handlers_aborted = 0
    /\ tick_pc = "idle"
    /\ tick_i = 0
    /\ tick_added = {}
    /\ ev = NoEv
    /\ MiningConstructed
    /\ args = NoArg
    /\ queries = <<>>
    /\ resolver_ops = {}
    /\ handler = NoHandler
    /\ attempts = <<>>
    /\ outcomes = <<>>
    /\ address_book = <<>>
    /\ RestConstructed

NextConfig ==
    \/ load
    \/ \E written \in BOOLEAN : save(written)
    \/ \E val \in 0 .. size_max : set_network_tcp_inbound_maximum(val)
    \/ conf_returns
    \/ \E t \in Texts : file_changes(t)

SpecConfig == InitConfig /\ [][NextConfig]_vars

(***************************************************************************)
(* The database stack: start() and stop() around the implementation, and   *)
(* join() and leave(), for the configurations a caller can set up.         *)
(***************************************************************************)
\* What every step of the database stack leaves as it is.
db_frame ==
    /\ UNCHANGED conn_vars
    /\ UNCHANGED mine_vars
    /\ UNCHANGED boot_vars
    /\ UNCHANGED conf_vars

\* configuration::set_port
set_port(val) ==
    /\ db_call.op = "none"
    /\ db_config' = [db_config EXCEPT !.port = val]
    /\ db_call' = [NoDbCall EXCEPT !.op = "set_port"]
    /\ UNCHANGED <<stack_impl_, db_running>>
    /\ db_frame

\* configuration::set_operation_mode
set_operation_mode(val) ==
    /\ db_call.op = "none"
    /\ db_config' = [db_config EXCEPT !.operation_mode = val]
    /\ db_call' = [NoDbCall EXCEPT !.op = "set_operation_mode"]
    /\ UNCHANGED <<stack_impl_, db_running>>
    /\ db_frame

\* stack::start: with an implementation it throws; otherwise it allocates
\* one and calls its start, which returns (begun) or throws.
stack_start(begun) ==
    /\ db_call.op = "none"
    /\ IF stack_impl_.allocated
       THEN /\ begun
            /\ db_call' = [op |-> "start",
                           threw |-> "Stack is already allocated"]
            /\ UNCHANGED <<stack_impl_, db_running>>
       ELSE /\ stack_impl_' = [allocated |-> TRUE, config |-> db_config,
                               started |-> begun, joined |-> FALSE]
            /\ db_call' = [op |-> "start",
                           threw |-> IF begun THEN "none"
                                     ELSE "stack_impl::start"]
            /\ db_running' = begun
    /\ UNCHANGED db_config
    /\ db_frame

\* stack::stop: with an implementation it calls its stop, which returns
\* (ended) or throws, and then deletes it and clears the pointer; without
\* one it throws.
stack_stop(ended) ==
    /\ db_call.op = "none"
    /\ IF stack_impl_.allocated
       THEN /\ stack_impl_' = IF ended THEN NoImpl ELSE stack_impl_
            /\ db_call' = [op |-> "stop",
                           threw |-> IF ended THEN "none"
                                     ELSE "stack_impl::stop"]
            /\ db_running' = FALSE
       ELSE /\ ended
            /\ db_call' = [op |-> "stop", threw |-> "Stack is not allocated"]
            /\ UNCHANGED <<stack_impl_, db_running>>
    /\ UNCHANGED db_config
    /\ db_frame

\* stack::join and stack::leave reach the implementation when there is one.
stack_join ==
    /\ db_call.op = "none"
    /\ stack_impl_' = IF stack_impl_.allocated
                      THEN [stack_impl_ EXCEPT !.joined = TRUE]
                      ELSE stack_impl_
    /\ db_call' = [NoDbCall EXCEPT !.op = "join"]
    /\ UNCHANGED <<db_config, db_running>>
    /\ db_frame

stack_leave ==
    /\ db_call.op = "none"
    /\ stack_impl_' = IF stack_impl_.allocated
                      THEN [stack_impl_ EXCEPT !.joined = FALSE]
                      ELSE stack_impl_
    /\ db_call' = [NoDbCall EXCEPT !.op = "leave"]
    /\ UNCHANGED <<db_config, db_running>>
    /\ db_frame

\* The call of the database stack returns, or its exception reaches the
\* caller.
db_returns ==
    /\ db_call.op # "none"
    /\ db_call' = NoDbCall
    /\ UNCHANGED <<db_config, stack_impl_, db_running>>
    /\ db_frame

NextStack ==
    \/ \E val \in 0 .. MaxPort : set_port(val)
    \/ \E val \in {"operation_mode_interface", "operation_mode_storage"} :
           set_operation_mode(val)
    \/ \E begun \in BOOLEAN : stack_start(begun)
    \/ \E ended \in BOOLEAN : stack_stop(ended)
    \/ stack_join
    \/ stack_leave
    \/ db_returns

\* From stack(): stack_impl_(0), next to a default configuration.
SpecStack == InitBoot /\ [][NextStack]_vars

(***************************************************************************)
(* Properties of the connection manager.                                   *)
(***************************************************************************)
\* The step is a call of op.
Called(op) == ev.op = "none" /\ ev'.op = op

\* The step is a call of connect, by a caller or by the top-up loop of tick.
CalledConnect ==
    Called("connect") \/ (Called("tick_top_up") /\ ev'.called)

EvEndpoint(e) == Endpoint(e.ip, e.port)

InboundCount ==
    Cardinality({e \in DOMAIN m_tcp_connections :
                    m_tcp_connections[e].dir = "in"})

\* C1: the table holds one connection per endpoint: handle_accept and connect
\* retain a new connection only under an endpoint that is not a key of the
\* table, and leave every entry that exists as it is.
C1_OneConnectionPerEndpoint ==
    [][(Called("handle_accept") \/ CalledConnect) =>
          IF ev'.created
          THEN /\ EvEndpoint(ev') \notin DOMAIN m_tcp_connections
               /\ DOMAIN m_tcp_connections' =
                      DOMAIN m_tcp_connections \cup {EvEndpoint(ev')}
               /\ \A e \in DOMAIN m_tcp_connections :
                      m_tcp_connections'[e] = m_tcp_connections[e]
          ELSE m_tcp_connections' = m_tcp_connections]_vars

\* A connect for an endpoint that is a key of the table has been refused, and
\* the table holds two entries.
C1_Witness ==
    /\ ev.op = "connect"
    /\ ~ev.ret
    /\ ev.ip \notin banned
    /\ EvEndpoint(ev) \in DOMAIN m_tcp_connections
    /\ Size(m_tcp_connections) = 2

\* C2: handle_accept for a remote IP that an entry of the table has, whatever
\* the port and the direction of that entry, stops the transport, creates and
\* starts no connection and leaves the table as it is.
C2_DuplicateIpRejected ==
    [][(Called("handle_accept")
            /\ \E e \in DOMAIN m_tcp_connections : e.ip = ev'.ip) =>
          (/\ ev'.tstop
           /\ ~ev'.created
           /\ ~ev'.started
           /\ m_tcp_connections' = m_tcp_connections)]_vars

\* An accept from the IP of an outgoing entry, on another port, with room in
\* the table and no ban, has been refused.
C2_Witness ==
    /\ ev.op = "handle_accept"
    /\ ev.tstop
    /\ ev.ip \notin banned
    /\ Size(m_tcp_connections) < network_tcp_inbound_maximum
    /\ \E e \in DOMAIN m_tcp_connections :
          /\ e.ip = ev.ip
          /\ e.port # ev.port
          /\ m_tcp_connections[e].dir = "out"

\* C3: connect for an endpoint whose IP is banned returns false, inserts
\* nothing, starts no connection and does not notify the address book.
C3_ConnectBanned ==
    [][(CalledConnect /\ ev'.ip \in banned) =>
          (/\ ~ev'.ret
           /\ ~ev'.created
           /\ ~ev'.started
           /\ ~ev'.notified
           /\ m_tcp_connections' = m_tcp_connections)]_vars

\* A connect for a banned endpoint that is not in the table has been refused.
C3_Witness ==
    /\ ev.op = "connect"
    /\ ev.ip \in banned
    /\ EvEndpoint(ev) \notin DOMAIN m_tcp_connections
    /\ ~ev.ret

\* C4: with the inbound maximum or more entries in the table, handle_accept
\* for a new, unbanned IP stops the transport and leaves the table as it is;
\* the incoming entries never outnumber the inbound maximum.
C4_CapacityRejected ==
    /\ [](InboundCount <= network_tcp_inbound_maximum)
    /\ [][(Called("handle_accept")
              /\ Size(m_tcp_connections) >= network_tcp_inbound_maximum
              /\ ev'.ip \notin banned
              /\ ~\E e \in DOMAIN m_tcp_connections : e.ip = ev'.ip) =>
            (/\ ev'.tstop
             /\ ~ev'.created
             /\ m_tcp_connections' = m_tcp_connections)]_vars

\* Inbound maximum 2, two connections accepted, a third one refused.
C4_Witness ==
    /\ ev.op = "handle_accept"
    /\ ev.tstop
    /\ network_tcp_inbound_maximum = 2
    /\ InboundCount = 2
    /\ Size(m_tcp_connections) = 2
    /\ ev.ip \notin banned
    /\ ~\E e \in DOMAIN m_tcp_connections : e.ip = ev.ip

\* C5: handle_accept for a banned remote IP that no entry has stops the
\* transport, inserts nothing and starts no connection.
C5_AcceptBanned ==
    [][(Called("handle_accept")
            /\ ev'.ip \in banned
            /\ ~\E e \in DOMAIN m_tcp_connections : e.ip = ev'.ip) =>
          (/\ ev'.tstop
           /\ ~ev'.created
           /\ ~ev'.started
           /\ m_tcp_connections' = m_tcp_connections)]_vars

\* An accept from a banned IP has been refused with room in the table.
C5_Witness ==
    /\ ev.op = "handle_accept"
    /\ ev.tstop
    /\ ev.ip \in banned
    /\ Size(m_tcp_connections) < network_tcp_inbound_maximum
    /\ ~\E e \in DOMAIN m_tcp_connections : e.ip = ev.ip

\* C6: after a top-up pass of tick no two entries of the table are in the
\* same address group; stated for the entries the pass itself has added, each
\* compared with every entry of the table.
C6_OnePeerPerGroup ==
    ev.op = "tick_end" =>
        \A e1 \in ev.added \cap DOMAIN m_tcp_connections :
            \A e2 \in DOMAIN m_tcp_connections :
                group(e1.ip) = group(e2.ip) => e1 = e2

\* C7: tick calls connect for no candidate whose last attempt is less than
\* 600 seconds old; the iteration attempts nothing.
C7_RetryInterval ==
    [][(Called("tick_top_up") /\ ev'.age < 600) =>
          (/\ ~ev'.called
           /\ ~ev'.created
           /\ ~ev'.notified
           /\ m_tcp_connections' = m_tcp_connections)]_vars

\* A candidate that only its last attempt, 599 seconds old, holds back has
\* been skipped.
C7_Witness ==
    /\ ev.op = "tick_top_up"
    /\ ev.age = 599
    /\ ev.valid
    /\ ~ev.local
    /\ ~is_in_same_group(ev.ip)
    /\ ev.ip \notin banned
    /\ EvEndpoint(ev) \notin DOMAIN m_tcp_connections
    /\ ~ev.called

\* The step completes a build of worker w: increment_extra_nonce returns.
Built(w) ==
    /\ pc[w] \in {"nonce", "nonce_reset"}
    /\ pc'[w] \notin {"nonce", "nonce_reset"}

\* C8: a build of a worker on the parent of its previous build uses an
\* extra-nonce strictly greater than that of the previous build (for a
\* counter below the largest value counted to).
C8_NonceIncreases ==
    [][\A w \in Workers :
          (/\ Built(w)
           /\ last_build'[w].parent = last_build[w].parent
           /\ last_build[w].nonce < MaxExtraNonce) =>
              last_build'[w].nonce > last_build[w].nonce]_vars

\* C9: a build of a worker on another parent than its previous build uses
\* the extra-nonce 1, whatever the other worker builds in between.
C9_NonceResets ==
    [][\A w \in Workers :
          (Built(w) /\ last_build'[w].parent # last_build[w].parent) =>
              last_build'[w].nonce = 1]_vars

\* C10: with the tip moved away from the one the proof-of-work worker read
\* for its candidate, the end of a scan batch leaves the hashing loop and
\* posts nothing, and a check_work of that candidate posts nothing.
C10_TipChangeEndsSearch ==
    /\ []((work.by = "pow" /\ work.index # work.best) => ~work.posted)
    /\ [][(/\ pc["pow"] = "checks"
           /\ pc'["pow"] # "checks"
           /\ index_previous["pow"] # best) =>
             (pc'["pow"] = "outer" /\ posted' = posted)]_vars

\* The proof-of-work worker found a nonce in the batch in which the tip
\* moved, and check_work has dropped the block.
C10_Witness ==
    /\ work.by = "pow"
    /\ work.index # work.best
    /\ ~work.posted
    /\ pc["pow"] = "outer"

\* C11: the strand runs process_block only for a block whose parent is the
\* best chain's hash at that moment.
C11_StaleNeverProcessed ==
    [][Len(posted') < Len(posted) => Head(posted).parent = best]_vars

\* C12: start_proof_of_work moves the proof-of-work state from none over
\* starting to started, stop_proof_of_work from started over stopping to
\* stopped; the stop resets the rate, and the rate is 0 as long as the state
\* is stopped.
C12_PowLifecycle ==
    /\ []((mutex_.mode = "pow" /\ mutex_.at \in {"spawn", "finish"}) =>
            (m_state_pow = "starting" /\ mutex_.found \in {"none", "stopped"}))
    /\ []((mutex_.mode = "pow" /\ mutex_.at = "join") =>
            (m_state_pow = "stopping" /\ mutex_.found = "started"))
    /\ [](m_state_pow = "stopped" => m_hashes_per_second = 0)
    /\ [][(mutex_.mode = "pow" /\ mutex_'.at = "return") =>
            (/\ mutex_.at = "finish" => m_state_pow' = "started"
             /\ mutex_.at = "join" =>
                 (m_state_pow' = "stopped" /\ m_hashes_per_second' = 0))]_vars

\* stop() has stopped proof-of-work, started from none by start(), while
\* the worker had a rate on record.
C12_Witness ==
    /\ mutex_.by = "stack"
    /\ mutex_.call = "stop"
    /\ mutex_.mode = "pow"
    /\ mutex_.at = "return"
    /\ mutex_.acted
    /\ mutex_.rate = 1
    /\ m_state_pow = "stopped"
    /\ m_hashes_per_second = 0

\* The edges a mode's state may take.
Edges == {<<"none", "starting">>, <<"stopped", "starting">>,
          <<"starting", "started">>, <<"started", "stopping">>,
          <<"stopping", "stopped">>}

\* C13: the state of each mode changes along the edges none -> starting,
\* stopped -> starting, starting -> started, started -> stopping and
\* stopping -> stopped only, whoever calls start and stop and in whatever
\* order.
C13_StateEdges ==
    [][/\ m_state_pow' # m_state_pow =>
             <<m_state_pow, m_state_pow'>> \in Edges
       /\ m_state_pos' # m_state_pos =>
             <<m_state_pos, m_state_pos'>> \in Edges]_vars

\* The RPC thread starts proof-of-work again, from stopped, while the stack
\* thread is between the two calls of its start().
C13_Witness ==
    /\ mutex_.by = "rpc"
    /\ mutex_.mode = "pow"
    /\ mutex_.found = "stopped"
    /\ m_state_pow = "starting"
    /\ stack_next = "start_proof_of_work"

\* The step is the first of a call.
CallBegins == mutex_ = NoCall /\ mutex_' # NoCall

\* The call changes nothing and goes to its end.
IsNoOp ==
    /\ mutex_'.at = "return"
    /\ ~mutex_'.acted
    /\ UNCHANGED <<m_state_pow, m_state_pos, pc, m_hashes_per_second,
                   m_hps_timer_start>>

\* C14: a start of a mode that is starting or started, and a stop of a mode
\* that is not started, changes no state and creates or joins no thread.
C14_RepeatedCallsNoOp ==
    [][/\ (/\ CallBegins
            /\ mutex_'.call = "start"
            /\ m_state(mutex_'.mode) \in {"starting", "started"}) => IsNoOp
       /\ (/\ CallBegins
            /\ mutex_'.call = "stop"
            /\ m_state(mutex_'.mode) # "started") => IsNoOp
       /\ (mutex_.at = "return" /\ ~mutex_.acted /\ mutex_' = NoCall) =>
             UNCHANGED <<m_state_pow, m_state_pos, pc, m_hashes_per_second,
                         m_hps_timer_start>>]_vars

\* A second start of proof-of-stake, by the RPC thread after the start() of
\* the stack thread, has found the mode started and is at its end, the
\* worker running.
C14_Witness ==
    /\ mutex_.by = "rpc"
    /\ mutex_.call = "start"
    /\ mutex_.mode = "pos"
    /\ mutex_.at = "return"
    /\ mutex_.found = "started"
    /\ ~mutex_.acted
    /\ pc["pos"] \notin {"off", "done"}

\* C15: with the node past its download and the wallet unlocked, the join
\* of stop_proof_of_stake completes: the state leaves stopping for stopped.
C15_StopJoinsStake ==
    (mutex_.mode = "pos" /\ mutex_.at = "join") ~>
        (m_state_pos = "stopped" \/ initial_block_download \/ wallet_locked)

\* C16: the join of stop_proof_of_work completes, whatever the download,
\* the peers and the wallet do.
C16_StopJoinsWork ==
    (mutex_.mode = "pow" /\ mutex_.at = "join") ~> (m_state_pow = "stopped")

\* C17: connect for an endpoint that is a key of the table returns false,
\* creates and starts no connection, does not notify the address book and
\* leaves the table, the handle of the endpoint included, as it is.
C17_ConnectExistingNoEffect ==
    [][(CalledConnect /\ EvEndpoint(ev') \in DOMAIN m_tcp_connections) =>
          (/\ ~ev'.ret
           /\ ~ev'.created
           /\ ~ev'.started
           /\ ~ev'.notified
           /\ m_tcp_connections' = m_tcp_connections)]_vars

\* A connect to the endpoint of an accepted, still open connection has been
\* refused, with no ban on the address.
C17_Witness ==
    /\ ev.op = "connect"
    /\ ~ev.ret
    /\ ~ev.notified
    /\ ev.ip \notin banned
    /\ EvEndpoint(ev) \in DOMAIN m_tcp_connections
    /\ m_tcp_connections[EvEndpoint(ev)] = [dir |-> "in", status |-> "open"]

\* C18: stop() leaves the table empty and has called stop on the connection
\* of every entry whose handle had not expired, on no other.
C18_StopClearsTable ==
    [][Called("stop") =>
          (/\ DOMAIN m_tcp_connections' = {}
           /\ ev'.stopped = {e \in DOMAIN m_tcp_connections :
                                m_tcp_connections[e].status # "expired"}
           /\ ev'.skipped = {e \in DOMAIN m_tcp_connections :
                                m_tcp_connections[e].status = "expired"})]_vars

\* stop() has ended with a table of a live and an expired entry cleared.
C18_Witness ==
    /\ ev.op = "stop"
    /\ Cardinality(ev.stopped) = 1
    /\ Cardinality(ev.skipped) = 1
    /\ DOMAIN m_tcp_connections = {}
    /\ ~running

\* The number of sends of the call to endpoint e.
Sends(e) == Cardinality({i \in DOMAIN ev.sent : ev.sent[i] = e})

\* C19: broadcast calls send once on every entry whose handle has not
\* expired, on no entry whose handle has, and leaves the table as it is.
C19_BroadcastLiveOnly ==
    /\ [](ev.op = "broadcast" =>
             \A e \in Endpoints :
                 Sends(e) = IF /\ e \in DOMAIN m_tcp_connections
                               /\ m_tcp_connections[e].status # "expired"
                            THEN 1 ELSE 0)
    /\ [][Called("broadcast") => m_tcp_connections' = m_tcp_connections]_vars

\* A broadcast to a table of two live entries and none, or of one live and
\* one expired entry.
C19_Witness ==
    /\ ev.op = "broadcast"
    /\ Len(ev.sent) = 1
    /\ Cardinality(ev.skipped) = 1
    /\ Size(m_tcp_connections) = 2

\* C20: a mining worker reads the size of the table only while no other
\* thread holds the lock of the table.
C20_SizeReadUnderLock ==
    [][\A w \in Workers :
          (pc[w] = "size" /\ pc'[w] # "size") => ~table_locked]_vars

\* C21: a tick and a completion handler of do_resolve never run at the same
\* time.
C21_TickResolveSerialized == ~(runs("tick") /\ runs("resolve"))

\* The step is the first of a call of start() by the stack.
StartBegins ==
    /\ mutex_ = NoCall
    /\ mutex_'.by = "stack"
    /\ mutex_'.call = "start"
    /\ mutex_'.mode = "pos"

\* C22: start() calls start_proof_of_stake, and goes on to
\* start_proof_of_work if and only if the argument mine-cpu is there with a
\* value above 0; the stack starts proof-of-work in no other case, and while
\* proof-of-work is started threads_ holds one thread, whatever the value.
C22_StartModes ==
    /\ [][/\ StartBegins =>
                (stack_next' = "start_proof_of_work" <=>
                     (args.present /\ args.value > 0))
          /\ (mutex_ = NoCall /\ mutex_'.by = "stack"
                  /\ mutex_'.call = "start" /\ mutex_'.mode = "pow") =>
                (args.present /\ args.value > 0)]_vars
    /\ [](m_state_pow \in {"started", "stopping"} => threads_ = 1)
    /\ [](m_state_pow \in {"none", "stopped"} => threads_ = 0)

\* start() has started both modes with mine-cpu at its largest value.
C22_Witness ==
    /\ mutex_.by = "stack"
    /\ mutex_.call = "start"
    /\ mutex_.mode = "pow"
    /\ mutex_.at = "return"
    /\ mutex_.found = "none"
    /\ args = [present |-> TRUE, value |-> MaxMineCpu]
    /\ m_state_pow = "started"
    /\ m_state_pos = "started"
    /\ threads_ = 1

\* The step is the prune loop of a tick.
Pruned == Called("tick_prune") \/ Called("tick_no_top_up")

\* The handle is alive and its connection reports a valid transport.
LiveAndValid(c) == c.status \in {"open", "connecting"}

\* C23: the prune loop of a tick keeps, as they are, the entries whose handle
\* is alive and whose transport is valid, and no other; it calls stop on the
\* connection of the entries that are alive and not valid, on those only,
\* and removes them as it removes the entries whose handle has expired.
C23_PruneKeepsLiveValid ==
    [][Pruned =>
          (/\ DOMAIN m_tcp_connections' =
                  {e \in DOMAIN m_tcp_connections :
                       LiveAndValid(m_tcp_connections[e])}
           /\ \A e \in DOMAIN m_tcp_connections' :
                  m_tcp_connections'[e] = m_tcp_connections[e]
           /\ ev'.stopped = {e \in DOMAIN m_tcp_connections :
                                m_tcp_connections[e].status = "invalid"}
           /\ ev'.skipped = {e \in DOMAIN m_tcp_connections :
                                m_tcp_connections[e].status = "expired"})]_vars

\* A tick has pruned a table of a valid, an invalid and an expired entry.
C23_Witness ==
    /\ ev.op = "tick_prune"
    /\ Cardinality(ev.stopped) = 1
    /\ Cardinality(ev.skipped) = 1
    /\ Size(m_tcp_connections) = 1

\* The size of the table after the prune loop of the running tick.
SizePruned == Size(m_tcp_connections) - Cardinality(tick_added)

\* C24: a tick whose pruned table holds minimum_tcp_connections entries or
\* more calls connect for none; otherwise its top-up loop runs at most
\* minimum_tcp_connections - s times for the s entries after the prune, and
\* leaves at most minimum_tcp_connections entries in the table.
C24_TopUpBounded ==
    /\ [][Called("tick_no_top_up") =>
             (/\ ~ev'.called
              /\ ev'.added = {}
              /\ tick_pc' = "idle")]_vars
    /\ [][Called("tick_top_up") =>
             (/\ SizePruned < minimum_tcp_connections
              /\ tick_i' <= minimum_tcp_connections - SizePruned
              /\ Cardinality(tick_added') <= tick_i'
              /\ Size(m_tcp_connections') <= minimum_tcp_connections)]_vars
    /\ [][Called("tick_end") =>
             (SizePruned >= minimum_tcp_connections => ev'.added = {})]_vars

\* A tick has topped a table of fewer entries up to minimum_tcp_connections.
C24_Witness ==
    /\ ev.op = "tick_end"
    /\ ev.added # {}
    /\ Size(m_tcp_connections) = minimum_tcp_connections

\* The waits of the timer that are pending, expired with their tick not yet
\* run, or being served by the running tick.
TicksUnderWay ==
    (IF timer_wait THEN 1 ELSE 0) + handlers_ok +
        (IF tick_pc # "idle" THEN 1 ELSE 0)

\* C25: a tick without an error code ends, in either branch, with one wait
\* of 8 s issued and no wait cancelled; a tick with an error code leaves the
\* table and the timer as they are; there is never more than one wait
\* pending, expired or being served.
C25_TickRearms ==
    /\ [][(Called("tick_end") \/ Called("tick_no_top_up")) =>
             (/\ ev'.armed
              /\ ev'.delay = 8
              /\ timer_wait'
              /\ handlers_aborted' = handlers_aborted)]_vars
    /\ [][Called("tick_prune") => (~ev'.armed /\ timer_wait' = timer_wait)]_vars
    /\ [][Called("tick_aborted") =>
             (/\ ~ev'.armed
              /\ timer_wait' = timer_wait
              /\ m_tcp_connections' = m_tcp_connections)]_vars
    /\ [](TicksUnderWay <= 1)

\* A tick on a table of more than minimum_tcp_connections entries has armed
\* the timer without a top-up.
C25_Witness ==
    /\ ev.op = "tick_no_top_up"
    /\ ev.armed
    /\ timer_wait
    /\ Size(m_tcp_connections) > minimum_tcp_connections

\* The number of times host h was given to address_manager::add.
Adds(h) == Cardinality({i \in DOMAIN address_book : address_book[i] = h})

\* The number of handlers invoked without an error for host h.
Resolved(h) ==
    Cardinality({i \in DOMAIN outcomes :
                    attempts[i] = h /\ outcomes[i] = "success"})

\* C26: the queries are resolved one at a time and in their order, each
\* once: an operation is issued only after the handler of the one before has
\* run, a host whose resolution succeeded is in the address book from then
\* on, a failed one adds nothing, and resolution ends only with every query
\* attempted.
C26_ResolveInSequence ==
    /\ Cardinality(resolver_ops) + (IF handler # NoHandler THEN 1 ELSE 0) <= 1
    /\ Len(attempts) <= Len(queries)
    /\ \A i \in DOMAIN attempts : attempts[i] = queries[i]
    /\ Len(outcomes) <= Len(attempts)
    /\ Len(attempts) <= Len(outcomes) + 1
    /\ \A h \in Hosts : Adds(h) = Resolved(h)
    /\ (resolver_ops = {} /\ handler = NoHandler) => attempts = queries

\* The first query of the largest list has failed, the last has succeeded
\* and is in the address book, and no operation is left.
C26_Witness ==
    /\ Len(queries) = MaxBootstrap
    /\ Len(outcomes) = MaxBootstrap
    /\ outcomes[1] = "error"
    /\ outcomes[MaxBootstrap] = "success"
    /\ address_book # <<>>
    /\ address_book[Len(address_book)] = queries[MaxBootstrap]
    /\ resolver_ops = {}
    /\ handler = NoHandler

\* C27: the handler of a resolution that stop() has cancelled starts no
\* further resolution.
C27_CancelEndsResolution ==
    [][handler.ec = "aborted" => attempts' = attempts]_vars

\* C28: a worker of the running node leaves its waits for
\* block::create_new only with the chain download over, a peer in the table
\* and the wallet unlocked.
C28_BuildsWhenReady ==
    [][\A w \in Workers :
          (/\ globals_state = "started"
           /\ pc[w] = "wallet"
           /\ pc'[w] = "create") =>
              (/\ ~initial_block_download
               /\ Size(m_tcp_connections) > 0
               /\ ~wallet_locked)]_vars

\* The step is a block::create_new of worker w that gives no block.
NoBlockMade(w) == pc[w] = "create" /\ pc'[w] \notin {"create", "index"}

\* C29: a worker whose block::create_new gives no block returns from loop():
\* the step posts nothing and leaves the other worker and the states of the
\* modes as they are, and the thread takes no further step, builds nothing
\* and calls no check_work.
C29_NoBlockEndsWorker ==
    [][\A w \in Workers :
          /\ NoBlockMade(w) =>
                (/\ pc'[w] = "done"
                 /\ posted' = posted
                 /\ last_build' = last_build
                 /\ \A v \in Workers \ {w} : pc'[v] = pc[v] /\ blk'[v] = blk[v]
                 /\ UNCHANGED <<m_state_pow, m_state_pos>>)
          /\ pc[w] = "done" =>
                (/\ pc'[w] = "done"
                 /\ blk'[w] = blk[w]
                 /\ last_build'[w] = last_build[w]
                 /\ work' # work => work'.by # w)]_vars

\* The proof-of-work thread has returned for want of a block, with its mode
\* started, and the proof-of-stake worker has posted a block.
C29_Witness ==
    /\ pc["pow"] = "done"
    /\ m_state_pow = "started"
    /\ blk["pow"] = NoBlock
    /\ work.by = "pos"
    /\ work.posted

\* C30: the proof-of-stake worker enters the body of its outer loop only
\* with the proof-of-stake state starting or started and the node running.
C30_StakeLoopOwnState ==
    [][(pc["pos"] = "outer" /\ pc'["pos"] = "sync") =>
          (/\ m_state_pos \in {"starting", "started"}
           /\ globals_state = "started")]_vars

\* The step is the check_work of worker w.
Checked(w) == pc[w] = "check_work" /\ pc'[w] # "check_work"

\* The block of worker w passes both checks of check_work: it is no
\* proof-of-work block with a hash above its target, and its parent is the
\* hash of the best chain.
Passes(w, within) ==
    /\ is_proof_of_stake(w) \/ within
    /\ blk[w].parent = hash_best_chain

\* C31: check_work keeps the reserved key, sets the count of getdata
\* requests of the block to 0 and posts the block when the block passes both
\* checks, and does none of the three when the hash of a proof-of-work block
\* is above the target or the parent is not the best hash.
C31_WorkEffectsTogether ==
    [][\A w \in Workers :
          Checked(w) =>
             (/\ work'.by = w
              /\ work'.kept = Passes(w, work'.within)
              /\ work'.counted = Passes(w, work'.within)
              /\ work'.posted = Passes(w, work'.within)
              /\ posted' = IF Passes(w, work'.within)
                           THEN Append(posted, blk[w]) ELSE posted)]_vars

\* check_work has dropped a proof-of-work block on the best tip whose hash
\* is above the target.
C31_Witness ==
    /\ work.by = "pow"
    /\ ~work.within
    /\ work.parent = work.best
    /\ ~work.kept
    /\ ~work.counted
    /\ ~work.posted

\* The step is a sleep of the throttle of the proof-of-stake worker.
Sleeps ==
    /\ pc["pos"] = "sleep"
    /\ pc'["pos"] = "sleep"
    /\ loops_performed' # loops_performed

\* C32: a wait of the throttle has at most loop_count sleeps, counted from
\* 0 at its start, and each sleep begins with the proof-of-stake state
\* started and the node running: once either has changed the worker starts
\* no further sleep.
C32_ThrottleBounded ==
    /\ [](loops_performed \in 0 .. loop_count)
    /\ [](pc["pos"] # "sleep" => loops_performed = 0)
    /\ [][Sleeps =>
             (/\ m_state_pos = "started"
              /\ globals_state = "started"
              /\ loops_performed < loop_count
              /\ loops_performed' = loops_performed + 1)]_vars

\* The proof-of-stake worker is in the throttle after a first sleep, with
\* sleeps left, and both the proof-of-stake state and the state of the node
\* have changed.
C32_Witness ==
    /\ pc["pos"] = "sleep"
    /\ loops_performed > 0
    /\ loops_performed < loop_count
    /\ m_state_pos = "stopping"
    /\ globals_state = "stopping"

\* C34: once stop() has returned, with no start() after it, the table is
\* empty and stays empty, and no wait of the timer is pending: a tick that
\* was due or queued when stop() ran neither connects nor arms the timer.
C34_StoppedStaysEmpty ==
    (~running /\ stop_pc = "idle") =>
        (/\ Size(m_tcp_connections) = 0
         /\ ~timer_wait)

\* C35: while the state of a mode is started and the node runs, the thread
\* of the mode is inside loop().
C35_StartedModeHasWorker ==
    \A w \in Workers :
       (m_state(w) = "started" /\ globals_state = "started") =>
          pc[w] \notin {"off", "done"}

\* C36: while the address book has an eligible address to offer and no
\* connection is lost, the ticks bring a table below minimum_tcp_connections,
\* an empty one included, up to minimum_tcp_connections.
C36_TicksFillTable ==
    (Size(m_tcp_connections) < minimum_tcp_connections) ~>
        (Size(m_tcp_connections) >= minimum_tcp_connections \/ ~Offers)

\* A tick has ended on a table of minimum_tcp_connections entries, all of
\* them added by the ticks and none established yet.
C36_Witness ==
    /\ ev.op = "tick_end"
    /\ ev.added # {}
    /\ Size(m_tcp_connections) = minimum_tcp_connections
    /\ \A e \in DOMAIN m_tcp_connections :
          m_tcp_connections[e] = [dir |-> "out", status |-> "connecting"]

\* The step is a call of op on the database stack.
DbCalled(op) == db_call.op = "none" /\ db_call'.op = op

\* C33: start() on a stack with an implementation throws and leaves the
\* implementation as it is, stop() on a stack without one throws and
\* changes nothing, a stop() that returns leaves a stack that start() can
\* start again, and the implementation exists exactly from a start() that
\* has returned to the next stop().
C33_StackStartStop ==
    /\ [][(DbCalled("start") /\ stack_impl_.allocated) =>
             (/\ db_call'.threw = "Stack is already allocated"
              /\ UNCHANGED <<stack_impl_, db_config, db_running>>)]_vars
    /\ [][(DbCalled("stop") /\ ~stack_impl_.allocated) =>
             (/\ db_call'.threw = "Stack is not allocated"
              /\ UNCHANGED <<stack_impl_, db_config, db_running>>)]_vars
    /\ [][(DbCalled("stop") /\ db_call'.threw = "none") =>
             stack_impl_' = NoImpl]_vars
    /\ [][(DbCalled("start") /\ ~stack_impl_.allocated) =>
             stack_impl_'.allocated]_vars
    /\ [](stack_impl_.allocated <=> db_running)

\* C37: the inbound maximum of the configuration is never below
\* network::tcp_inbound_minimum.
C37_InboundMaximumFloor == network_tcp_inbound_maximum >= tcp_inbound_minimum

\* load() has read a number below the minimum from the file and has left
\* the minimum in the member.
C37_Witness ==
    /\ conf_call.op = "load"
    /\ conf_call.ret
    /\ config_dat.kind = "number"
    /\ config_dat.value >= 0
    /\ config_dat.value < tcp_inbound_minimum
    /\ network_tcp_inbound_maximum = tcp_inbound_minimum

====
